---- MODULE Spec2Model ----
(***************************************************************************)
(* Portfolio backend: HTTP handlers, entity services with a read-through  *)
(* / write-invalidate Redis cache, and GORM repositories over Postgres.   *)
(*                                                                         *)
(* A request is a process.  Its steps are the accesses to shared state,   *)
(* in the order the code issues them:                                      *)
(*   read :  redis.Get -> repo query -> redis.Set                          *)
(*   write:  [repo First ->] repo Create/Save/Delete -> redis.Del          *)
(* Everything local to a request (middleware, binding, building the       *)
(* response) is folded into the step that precedes or follows it.         *)
(***************************************************************************)
EXTENDS Integers, Sequences, FiniteSets, TLC

\* ------------------------------------------------------------------ bounds
\* Number of requests that may be in flight at once.
NumProcs == 2
\* Largest primary key a table hands out (rows per table).
MaxId == 2
\* Clock ticks per hour: the resolution at which cache expiry is observed.
TicksPerHour == 2

\* Most requests that arrive within one second.
MaxArrivals == 12

\* Most restarts of the server.
MaxBoots == 2

\* rate.NewLimiter(rate.Every(time.Second), 10): the bucket holds at most
\* Burst tokens and gains TokensPerSecond of them every second.
Burst == 10
TokensPerSecond == 1

Procs == 1..NumProcs
Ids == 1..MaxId

\* ------------------------------------------------------------------ values
Entities == {"profile", "experience", "skill", "project", "contact"}

NoRow == [none |-> TRUE]
NoEntry == [none |-> TRUE]
NoBody == [none |-> TRUE]
NoResp == [none |-> TRUE]

\* models.Profile: the fields the repository and the bindings look at.
SeedProfile == [name |-> "Your name", email |-> "email@gmail.com"]
\* models.Experience seeded by seedInitialData (first entry of the list).
SeedExperience == [company |-> "Company1", start |-> 2, current |-> TRUE, hasEnd |-> FALSE]
\* models.Skill seeded by seedInitialData.
SeedSkill == [name |-> "Go", category |-> "Languages", level |-> 9]
\* models.Project seeded by seedInitialData: every seeded project is featured.
SeedProject == [name |-> "P1", featured |-> TRUE, created |-> TRUE]

\* Request bodies the clients send (after JSON decoding).
ProfileInputs ==
    { [name |-> "N2", email |-> "email@gmail.com"],
      [name |-> "N2", email |-> "new@x.com"],
      [name |-> "", email |-> "new@x.com"] }
ExperienceInputs ==
    { [company |-> "Company1", start |-> 2, current |-> TRUE, hasEnd |-> FALSE],
      [company |-> "Acme", start |-> 1, current |-> TRUE, hasEnd |-> TRUE],
      [company |-> "", start |-> 1, current |-> FALSE, hasEnd |-> TRUE] }
SkillInputs ==
    { [name |-> "Go", category |-> "Languages", level |-> 9],
      [name |-> "Rust", category |-> "Languages", level |-> 8],
      [name |-> "", category |-> "Languages", level |-> 8] }
\* Skill bodies whose level is off the scale; 0 is also what a body with no
\* level decodes to.
SkillLevelInputs ==
    { [name |-> "Rust", category |-> "Languages", level |-> 0],
      [name |-> "Rust", category |-> "Languages", level |-> 11] }
ProjectInputs ==
    { [name |-> "P1", featured |-> TRUE],
      [name |-> "P2", featured |-> FALSE],
      [name |-> "", featured |-> FALSE] }
ContactInputs ==
    { [name |-> "A", email |-> "a@b.com", message |-> "hi"],
      [name |-> "A", email |-> "a@b.com", message |-> "hi", status |-> "replied"],
      [name |-> "", email |-> "a@b.com", message |-> "hi"] }
ContactEmailInputs == { [name |-> "A", email |-> "not-an-email", message |-> "hi"] }
StatusInputs == { [status |-> "read"], [status |-> ""] }
LoginInputs ==
    { [username |-> "admin", password |-> "secret"],
      [username |-> "mallory", password |-> "x"],
      [username |-> "", password |-> "x"],
      [username |-> "admin", password |-> ""] }

\* The users table: runMigrations creates it, seedInitialData puts no row
\* in it, and no route writes it.
Users == {}

\* Authorization header values, as sequences of text pieces.
AuthHeaders ==
    { <<>>,
      <<"Basic ", "abc">>,
      <<"Bearer ">>,
      <<"Bearer ", "nonsense">>,
      <<"Bearer ", "demo-jwt-token-", "admin">> }

\* The :id of a path is text.  strconv.ParseUint(text, 10, 32) reads the
\* decimal numerals and fails on anything else.
Numerals == <<"1", "2", "3", "4", "5", "6", "7", "8", "9">>
NumeralOf(n) == IF n = 0 THEN "0" ELSE Numerals[n]
ParseOk(text) == \E n \in 0..Len(Numerals) : NumeralOf(n) = text
ParseUint(text) == CHOOSE n \in 0..Len(Numerals) : NumeralOf(n) = text
\* The paths that name a primary key the tables can hold.
PathIds == {NumeralOf(i) : i \in Ids}

\* strings.HasPrefix / strings.TrimPrefix on piece sequences.
HasPrefix(s, prefix) ==
    Len(s) >= Len(prefix) /\ SubSeq(s, 1, Len(prefix)) = prefix
TrimPrefix(s, prefix) ==
    IF HasPrefix(s, prefix) THEN SubSeq(s, Len(prefix) + 1, Len(s)) ELSE s

\* ------------------------------------------------------------------ state
VARIABLES
    booted,   \* database.Initialize has run
    boots,    \* how often the server has been started again since
    rows,     \* rows[e][i]: the row of table e with primary key i, or NoRow
    nextId,   \* nextId[e]: the next primary key table e assigns
    cache,    \* cache[k]: the Redis entry of key k, or NoEntry
    pc,       \* pc[p]: where request p stands
    req,      \* req[p]: the request p is serving
    got,      \* got[p]: what the repository returned to p
    resp,     \* resp[p]: the HTTP response of p
    calls,    \* calls[p]: Store and Cache calls p has issued so far (history)
    clean,    \* clean[p]: p began with no request on its entity in flight, and
              \*           no write to that entity has committed since (history)
    preWrite, \* preWrite[k]: key k was populated when a successful write to its
              \*           entity returned, and no read has used k since (history)
    origin,   \* origin[k]: the table the entry under key k was queried from (history)
    lastRead, \* lastRead[k]: what the last read through key k returned, until
              \*           a write to its entity commits or the entry expires (history)
    issued,   \* the tokens Login has handed out (history)
    tokens,   \* tokens the rate limiter held after the last request it saw
    arrivals  \* arrivals.all / .contact: requests / contact-form requests that
              \*           arrived in the second of the last request (history)

vars == <<booted, boots, rows, nextId, cache, pc, req, got, resp, calls,
          clean, preWrite, lastRead, origin, issued, tokens, arrivals>>
storeVars == <<rows, nextId>>
procVars == <<pc, req, got, resp, calls, clean>>
histVars == <<preWrite, lastRead, origin>>
limVars == <<tokens, arrivals>>


\* ------------------------------------------------------------------ routes
Keys == {"profile", "experiences", "skills", "projects",
         "projects:featured", "projects:non-featured"}

ReadOps == {"GetProfile", "GetExperiences", "GetSkills", "GetProjects", "GetContacts"}
CreateOps == {"CreateExperience", "CreateSkill", "CreateProject", "CreateContact"}
UpdateOps == {"UpdateExperience", "UpdateSkill", "UpdateProject"}
DeleteOps == {"DeleteExperience", "DeleteSkill", "DeleteProject"}
WriteOps == CreateOps \cup UpdateOps \cup DeleteOps
                \cup {"UpdateProfile", "UpdateContactStatus"}
\* The routes with an :id in their path.
ByIdOps == UpdateOps \cup DeleteOps \cup {"UpdateContactStatus"}

\* The service (and so the table) behind each handler.
EntityOf(op) ==
    CASE op \in {"GetProfile", "UpdateProfile"} -> "profile"
      [] op \in {"GetExperiences", "CreateExperience", "UpdateExperience",
                 "DeleteExperience"} -> "experience"
      [] op \in {"GetSkills", "CreateSkill", "UpdateSkill", "DeleteSkill"} -> "skill"
      [] op \in {"GetProjects", "CreateProject", "UpdateProject",
                 "DeleteProject"} -> "project"
      [] OTHER -> "contact"

\* setupRouter: the routes registered on the /admin group.
IsAdmin(op) ==
    op \in {"UpdateProfile",
            "CreateExperience", "UpdateExperience", "DeleteExperience",
            "CreateSkill", "UpdateSkill", "DeleteSkill",
            "CreateProject", "UpdateProject", "DeleteProject",
            "GetContacts", "UpdateContactStatus"}

\* config.Load: the JWT_SECRET the server runs with when none is set.
JWTSecret == "your-secret-key-change-in-production"

\* Variants of isValidToken: every non-empty token is accepted; only a token
\* that Login has handed out is accepted.
isValidToken_Any(token, secret) == TRUE
isValidToken_Issued(token, secret) ==
    HasPrefix(token, <<"demo-jwt-token-">>) /\ token \in issued

\* isValidToken: any token that starts with the demo marker.
isValidToken(token, secret) == HasPrefix(token, <<"demo-jwt-token-">>)

\* AuthMiddleware: "" when the request passes, else the 401 error text.
AuthMiddleware(authHeader) ==
    IF authHeader = <<>> THEN "Authorization header required"
    ELSE IF ~HasPrefix(authHeader, <<"Bearer ">>)
         THEN "Invalid authorization header format"
    ELSE IF TrimPrefix(authHeader, <<"Bearer ">>) = <<>> THEN "Token required"
    ELSE IF ~isValidToken(TrimPrefix(authHeader, <<"Bearer ">>), JWTSecret)
         THEN "Invalid token"
    ELSE ""

\* The validator's email rule, on the addresses the requests carry.
IsEmail(text) == text \notin {"", "not-an-email"}

\* Variant of ShouldBindJSON: the email fields carry no email tag.
ShouldBindJSON_NoEmailTag(op, body) ==
    CASE op = "UpdateProfile" -> body.name # "" /\ body.email # ""
      [] op = "CreateExperience" -> body.company # ""
      [] op = "CreateSkill" ->
            body.name # "" /\ body.category # "" /\ body.level \in 1..10
      [] op = "UpdateSkill" -> body.level \in 1..10
      [] op = "CreateProject" -> body.name # ""
      [] op = "CreateContact" ->
            body.name # "" /\ body.email # "" /\ body.message # ""
      [] op = "UpdateContactStatus" -> body.status # ""
      [] OTHER -> TRUE

\* Variant of ShouldBindJSON: the skill requests carry no min / max tag.
ShouldBindJSON_NoLevel(op, body) ==
    CASE op = "UpdateProfile" -> body.name # "" /\ body.email # ""
      [] op = "CreateExperience" -> body.company # ""
      [] op = "CreateSkill" -> body.name # "" /\ body.category # ""
      [] op = "CreateProject" -> body.name # ""
      [] op = "CreateContact" ->
            body.name # "" /\ body.email # "" /\ body.message # ""
      [] op = "UpdateContactStatus" -> body.status # ""
      [] OTHER -> TRUE

\* c.ShouldBindJSON against the request struct's binding tags.
ShouldBindJSON(op, body) ==
    CASE op = "UpdateProfile" ->
            body.name # "" /\ body.email # "" /\ IsEmail(body.email)
      [] op = "CreateExperience" -> body.company # ""
      [] op = "CreateSkill" ->
            body.name # "" /\ body.category # "" /\ body.level \in 1..10
      [] op = "UpdateSkill" -> body.level \in 1..10
      [] op = "CreateProject" -> body.name # ""
      [] op = "CreateContact" ->
            body.name # "" /\ body.email # "" /\ IsEmail(body.email)
                /\ body.message # ""
      [] op = "UpdateContactStatus" -> body.status # ""
      [] OTHER -> TRUE

\* Variant of FeaturedFilter: the text "yes" asks for the featured rows too.
FeaturedFilter_Truthy(featured) ==
    IF featured \in {"true", "yes"} THEN "true"
    ELSE IF featured = "false" THEN "false"
    ELSE "nil"

\* Handlers.GetProjects: the *bool filter made of the featured parameter.
FeaturedFilter(featured) ==
    IF featured = "true" THEN "true"
    ELSE IF featured = "false" THEN "false"
    ELSE "nil"

\* Variant of CacheKey: the key of a filtered listing is built from the
\* text of the featured parameter.
CacheKey_RawParam(r) ==
    CASE r.op = "GetProfile" -> "profile"
      [] r.op = "GetExperiences" -> "experiences"
      [] r.op = "GetSkills" -> "skills"
      [] r.op = "GetProjects" ->
            CASE r.body.featured = "" -> "projects"
              [] r.body.featured = "true" -> "projects:featured"
              [] r.body.featured = "false" -> "projects:false"
              [] OTHER -> "projects:yes"

\* The cache key a read looks up (and later sets).
CacheKey(r) ==
    CASE r.op = "GetProfile" -> "profile"
      [] r.op = "GetExperiences" -> "experiences"
      [] r.op = "GetSkills" -> "skills"
      [] r.op = "GetProjects" ->
            IF FeaturedFilter(r.body.featured) = "nil" THEN "projects"
            ELSE IF FeaturedFilter(r.body.featured) = "true" THEN "projects:featured"
            ELSE "projects:non-featured"

\* Variants of InvalidatedKeys: a write path that forgets a key.
InvalidatedKeys_NoExperiences(e) ==
    CASE e = "profile" -> {"profile"}
      [] e = "skill" -> {"skills"}
      [] e = "project" -> {"projects", "projects:featured", "projects:non-featured"}
      [] OTHER -> {}
InvalidatedKeys_NoFiltered(e) ==
    CASE e = "profile" -> {"profile"}
      [] e = "experience" -> {"experiences"}
      [] e = "skill" -> {"skills"}
      [] e = "project" -> {"projects"}
      [] OTHER -> {}

\* Variant of InvalidatedKeys: a write path clears the whole cache.
InvalidatedKeys_Every(e) ==
    IF e = "contact" THEN {}
    ELSE {"profile", "experiences", "skills", "projects", "projects:featured",
          "projects:non-featured"}

\* The keys each write path passes to redis.Del.
InvalidatedKeys(e) ==
    CASE e = "profile" -> {"profile"}
      [] e = "experience" -> {"experiences"}
      [] e = "skill" -> {"skills"}
      [] e = "project" -> {"projects", "projects:featured", "projects:non-featured"}
      [] OTHER -> {}

\* ------------------------------------------------------------------ JSON
\* json.Marshal of a repository result: an object for one row, an array for
\* a listing.  json.Unmarshal fails on text that is not JSON and on a JSON
\* value of the other shape.
Shape(op) == IF op = "GetProfile" THEN "object" ELSE "array"
Marshal(v, shape) == [fmt |-> "json", shape |-> shape, data |-> v]
Garbage == [fmt |-> "garbage", shape |-> "none", data |-> <<>>]
UnmarshalOk(text, shape) == text.fmt = "json" /\ text.shape = shape
Unmarshal(text) == text.data

\* ------------------------------------------------------------------ store
Present(e) == {i \in Ids : rows[e][i] # NoRow}

\* ORDER BY of each listing, as a key to sort ascending on; rows with equal
\* keys are listed by primary key.
StrRank(s) ==
    CASE s = "" -> 0 [] s = "Go" -> 1 [] s = "Languages" -> 2 [] s = "Rust" -> 3
      [] OTHER -> 4
OrderKey(e, r) ==
    CASE e = "experience" -> 0 - r.start                       \* start_date DESC
      [] e = "skill" -> StrRank(r.category) * 10 + StrRank(r.name)  \* category, name
      [] e = "project" -> IF r.created THEN 0 - r.id ELSE 1    \* created_at DESC
      [] OTHER -> 0 - r.id                                     \* created_at DESC
Before(e, r, q) ==
    \/ OrderKey(e, r) < OrderKey(e, q)
    \/ OrderKey(e, r) = OrderKey(e, q) /\ r.id <= q.id

RECURSIVE SortRows(_, _)
SortRows(e, S) ==
    IF S = {} THEN <<>>
    ELSE LET m == CHOOSE r \in S : \A q \in S : Before(e, r, q)
         IN <<m>> \o SortRows(e, S \ {m})

\* The repository queries, on table contents t (= rows[e]).
\* ProfileRepository.GetProfile: db.First, the row with the smallest key.
RepoGetProfile(t) ==
    LET have == {i \in Ids : t[i] # NoRow}
    IN IF have = {} THEN NoRow
       ELSE t[CHOOSE i \in have : \A j \in have : i <= j]
\* GetExperiences / GetSkills / GetContacts: Order(...).Find.
RepoList(e, t) == SortRows(e, {t[i] : i \in {j \in Ids : t[j] # NoRow}})
\* Variant of RepoGetProjects: the Where is added for featured=true only.
RepoGetProjects_OnlyTrueFilters(t, filter) ==
    SortRows("project",
        {t[i] : i \in {j \in Ids : t[j] # NoRow
                           /\ (filter # "true" \/ t[j].featured)}})

\* ProjectRepository.GetProjects: optional Where("featured = ?").
RepoGetProjects(t, filter) ==
    SortRows("project",
        {t[i] : i \in {j \in Ids : t[j] # NoRow
                           /\ (filter = "nil" \/ t[j].featured = (filter = "true"))}})

\* What the repository returns for read request r on the tables tabs.
RepoQuery(r, tabs) ==
    CASE r.op = "GetProfile" -> RepoGetProfile(tabs["profile"])
      [] r.op = "GetProjects" ->
            RepoGetProjects(tabs["project"], FeaturedFilter(r.body.featured))
      [] OTHER -> RepoList(EntityOf(r.op), tabs[EntityOf(r.op)])


\* Variant of MkRow: a status sent in the contact form is stored.
MkRow_BodyWins(e, id, body) ==
    CASE e = "project" -> [id |-> id, created |-> TRUE] @@ body
      [] e = "contact" -> body @@ [id |-> id, status |-> "new"]
      [] OTHER -> [id |-> id] @@ body

\* Rows as the tables hold them.  A contact is built from the fields of
\* ContactCreateRequest, which has no status, with Status: "new".
MkRow(e, id, body) ==
    CASE e = "project" -> [id |-> id, created |-> TRUE] @@ body
      [] e = "contact" -> [id |-> id, status |-> "new"] @@ body
      [] OTHER -> [id |-> id] @@ body

\* Variant of UniqueViolation: Skill.Name carries no unique index.
UniqueViolation_NoSkillIndex(e, t, r) ==
    CASE e = "profile" ->
            \E i \in Ids : t[i] # NoRow /\ i # r.id /\ t[i].email = r.email
      [] OTHER -> FALSE

\* The unique indexes: Profile.Email and Skill.Name.  TRUE when writing row r
\* collides with another row of table t.
UniqueViolation(e, t, r) ==
    CASE e = "profile" ->
            \E i \in Ids : t[i] # NoRow /\ i # r.id /\ t[i].email = r.email
      [] e = "skill" ->
            \E i \in Ids : t[i] # NoRow /\ i # r.id /\ t[i].name = r.name
      [] OTHER -> FALSE

\* The errors.New texts of the repositories, which the handlers match on.
NotFoundText(e) ==
    CASE e = "experience" -> "experience not found"
      [] e = "skill" -> "skill not found"
      [] e = "project" -> "project not found"
      [] OTHER -> "contact not found"

\* The error a repository method returns: gorm's error as it is, but for
\* ErrRecordNotFound from the First of an update or delete ("" is nil).
RepoError(e, dbFail, missing, duplicate) ==
    IF dbFail THEN "dial tcp: connection refused"
    ELSE IF missing THEN (IF e = "profile" THEN "record not found"
                          ELSE NotFoundText(e))
    ELSE IF duplicate THEN "duplicate key value violates unique constraint"
    ELSE ""

\* The handlers' translation of a service error into a status code.
ErrorStatus(e, err) == IF err = NotFoundText(e) THEN 404 ELSE 500

\* Variant of ErrorBody: the handler answers with err.Error().
ErrorBody_ErrText(op, err) == err

\* The message of the handlers' error response: one fixed text per branch.
ErrorBody(op, err) ==
    IF op \in ReadOps THEN "Failed to get"
    ELSE IF err = NotFoundText(EntityOf(op)) THEN "Not found"
    ELSE "Failed"

\* The status a handler answers a successful call with.
SuccessStatus(op) ==
    IF op \in CreateOps THEN 201 ELSE IF op \in DeleteOps THEN 204 ELSE 200

\* seedInitialData, with each seeded list cut to its first entry.
SeedRows(e) ==
    [i \in Ids |->
        IF i # 1 \/ e = "contact" THEN NoRow
        ELSE CASE e = "profile" -> MkRow(e, 1, SeedProfile)
               [] e = "experience" -> MkRow(e, 1, SeedExperience)
               [] e = "skill" -> MkRow(e, 1, SeedSkill)
               [] OTHER -> [id |-> 1] @@ SeedProject]
SeedNextId(e) == IF e = "contact" THEN 1 ELSE 2
\* The database as seeding leaves it.
SeedTables == [e \in Entities |-> SeedRows(e)]

\* ------------------------------------------------------------------ init
IdleReq == [op |-> "none", path |-> "", id |-> 0, body |-> NoBody, auth |-> <<>>]
NoCalls == [store |-> 0, storeErrs |-> 0, cache |-> 0, cacheErrs |-> 0, miss |-> "none",
            snap |-> {}, err |-> ""]
\* History values are optional: {} for none, {v} for the value v.
None == {}
Some(v) == {v}

Init ==
    /\ booted = FALSE
    /\ boots = 0
    /\ rows = [e \in Entities |-> [i \in Ids |-> NoRow]]
    /\ nextId = [e \in Entities |-> 1]
    /\ cache = [k \in Keys |-> NoEntry]
    /\ pc = [p \in Procs |-> "idle"]
    /\ req = [p \in Procs |-> IdleReq]
    /\ got = [p \in Procs |-> NoRow]
    /\ resp = [p \in Procs |-> NoResp]
    /\ calls = [p \in Procs |-> NoCalls]
    /\ clean = [p \in Procs |-> TRUE]
    /\ preWrite = [k \in Keys |-> FALSE]
    /\ lastRead = [k \in Keys |-> None]
    /\ origin = [k \in Keys |-> None]
    /\ issued = {}
    /\ tokens = Burst
    /\ arrivals = [all |-> 0, contact |-> 0]

\* database.Initialize at server start: migrations, then seedInitialData,
\* which returns at once when a profile row exists.
\* Variant of seedInitialData: the count of profiles is not looked at.
seedInitialData_Always ==
    /\ rows' = SeedTables
    /\ nextId' = [e \in Entities |-> SeedNextId(e)]

seedInitialData ==
    IF Present("profile") # {}
    THEN UNCHANGED storeVars
    ELSE /\ rows' = SeedTables
         /\ nextId' = [e \in Entities |-> SeedNextId(e)]

Initialize ==
    /\ \A p \in Procs : pc[p] = "idle"
    /\ booted' = TRUE
    /\ seedInitialData
    /\ UNCHANGED <<limVars, issued, boots, cache, procVars, histVars>>

\* The server is stopped and started again on the database and the Redis it
\* left: database.Initialize runs once more, and the limiter, which lives
\* in the process, is a new one.
Restart ==
    /\ booted
    /\ boots < MaxBoots
    /\ \A p \in Procs : pc[p] = "idle"
    /\ boots' = boots + 1
    /\ seedInitialData
    /\ tokens' = Burst
    /\ arrivals' = [all |-> 0, contact |-> 0]
    /\ UNCHANGED <<booted, issued, cache, procVars, histVars>>

\* ------------------------------------------------------------------ steps
Finish(p, status, body) ==
    /\ pc' = [pc EXCEPT ![p] = "done"]
    /\ resp' = [resp EXCEPT ![p] = [status |-> status, body |-> body]]

Goto(p, label) ==
    /\ pc' = [pc EXCEPT ![p] = label]
    /\ UNCHANGED resp

\* calls[p].snap is the table behind what a read answers: the table its
\* query ran on, or the one the entry it was served was queried from.
StoreCall(p, err) ==
    calls' = [calls EXCEPT ![p].store = @ + 1,
                           ![p].storeErrs = @ + (IF err # "" THEN 1 ELSE 0),
                           ![p].err = err,
                           ![p].snap = IF req[p].op \in ReadOps /\ err = ""
                                       THEN {rows[EntityOf(req[p].op)]}
                                       ELSE @]
CacheCall(p, failed, miss) ==
    calls' = [calls EXCEPT ![p].cache = @ + 1,
                           ![p].cacheErrs = @ + (IF failed THEN 1 ELSE 0),
                           ![p].miss = IF miss = "" THEN @ ELSE miss,
                           ![p].snap = IF miss = "hit"
                                       THEN origin[CacheKey(req[p])]
                                       ELSE @]

\* The cache keys that hold query results of table e.
KeyEntity(k) ==
    CASE k = "profile" -> "profile"
      [] k = "experiences" -> "experience"
      [] k = "skills" -> "skill"
      [] OTHER -> "project"
KeysOf(e) == {k \in Keys : KeyEntity(k) = e}

InFlight(q) == pc[q] \notin {"idle", "done"}

\* Variant of FirstStep: a write invalidates before it touches the Store.
FirstStep_DelFirst(op) ==
    IF op = "GetContacts" THEN "repo_query"
    ELSE IF op \in {"GetProfile", "GetExperiences", "GetSkills", "GetProjects"}
         THEN "cache_get"
    ELSE IF op \in {"CreateContact", "UpdateContactStatus"} THEN "repo_write"
    ELSE "cache_del"

\* The first shared-state access of each service method.
FirstStep(op) ==
    IF op = "GetContacts" THEN "repo_query"
    ELSE IF op \in ReadOps THEN "cache_get"
    ELSE IF op \in UpdateOps \cup DeleteOps \cup {"UpdateContactStatus"}
         THEN "repo_first"
    ELSE "repo_write"

IsInsert(op) == op \in CreateOps \cup {"UpdateProfile"}

\* Requests that have been admitted and will still insert into table e.
PendingInserts(e) ==
    {q \in Procs : pc[q] = "repo_write" /\ IsInsert(req[q].op)
                     /\ EntityOf(req[q].op) = e}

\* A request that the router's global middleware has let through arrives:
\* the /admin group's AuthMiddleware, then the handler's parsing of the :id
\* of its path (id is that text) and its binding of the body; a request
\* that passes both enters its service method.  The rate limiter, which
\* stands before AuthMiddleware, is RateLimit below.
Request(p, op, id, body, auth) ==
    /\ booted
    /\ pc[p] = "idle"
    /\ IsInsert(op) =>
          nextId[EntityOf(op)] + Cardinality(PendingInserts(EntityOf(op))) <= MaxId
    /\ IF IsAdmin(op) /\ AuthMiddleware(auth) # ""
       THEN \* c.Abort(): the handler never runs, the path and the body stay unread
            /\ req' = [req EXCEPT ![p] = [IdleReq EXCEPT !.op = op, !.auth = auth]]
            /\ Finish(p, 401, AuthMiddleware(auth))
       ELSE IF op \in ByIdOps /\ ~ParseOk(id)
       THEN \* the handler returns before it binds the body
            /\ req' = [req EXCEPT ![p] =
                          [IdleReq EXCEPT !.op = op, !.path = id, !.auth = auth]]
            /\ Finish(p, 400, "Invalid ID")
       ELSE /\ req' = [req EXCEPT ![p] =
                          [op |-> op,
                           path |-> IF op \in ByIdOps THEN id ELSE "",
                           id |-> IF op \in ByIdOps THEN ParseUint(id) ELSE 0,
                           body |-> body, auth |-> auth]]
            /\ IF ~ShouldBindJSON(op, body)
               THEN Finish(p, 400, "binding error")
               ELSE Goto(p, FirstStep(op))
    /\ clean' = [clean EXCEPT ![p] =
                    \A q \in Procs \ {p} :
                        InFlight(q) => EntityOf(req[q].op) # EntityOf(op)]
    /\ UNCHANGED <<booted, boots, rows, nextId, cache, got, calls, histVars, issued>>

\* ------------------------------------------------------------------ limiter
\* The one limiter of the process stands before every route.  Time is
\* counted in whole seconds; gap is the number of seconds between the
\* previous request and this one, 0 when both arrive in the same second.
Min(a, b) == IF a < b THEN a ELSE b

\* Variant of Refilled: the bucket is never topped up.
Refilled_Never(t, gap) == t

\* The tokens of the bucket gap seconds after it held t.
Refilled(t, gap) == Min(Burst, t + gap * TokensPerSecond)

\* Variant of Allow: the limiter never says no.
Allow_Always(gap) == TRUE

\* limiter.Allow()
Allow(gap) == Refilled(tokens, gap) >= 1

\* The requests of this second, the arriving one included.
Arrived(op, gap) ==
    LET was == IF gap = 0 THEN arrivals ELSE [all |-> 0, contact |-> 0]
    IN  [all |-> was.all + 1,
         contact |-> was.contact + (IF op = "CreateContact" THEN 1 ELSE 0)]

\* RateLimit lets the request through: one token is taken, then c.Next().
RateLimit(op, gap) ==
    /\ gap = 0 => arrivals.all < MaxArrivals
    /\ Allow(gap)
    /\ tokens' = Refilled(tokens, gap) - 1
    /\ arrivals' = Arrived(op, gap)

\* RateLimit turns the request away: 429 and c.Abort(), so neither
\* AuthMiddleware nor the handler runs.
TooManyRequests(p, op, gap) ==
    /\ booted
    /\ pc[p] = "idle"
    /\ gap = 0 => arrivals.all < MaxArrivals
    /\ ~Allow(gap)
    /\ tokens' = Refilled(tokens, gap)
    /\ arrivals' = Arrived(op, gap)
    /\ req' = [req EXCEPT ![p] = [IdleReq EXCEPT !.op = op]]
    /\ Finish(p, 429, "Rate limit exceeded")
    /\ clean' = [clean EXCEPT ![p] =
                    \A q \in Procs \ {p} :
                        InFlight(q) => EntityOf(req[q].op) # EntityOf(op)]
    /\ UNCHANGED <<booted, boots, rows, nextId, cache, got, calls, histVars, issued>>

\* What Redis holds under key k: a key it has never been given, or one that
\* was deleted, has no entry.
Held(k) == IF k \in DOMAIN cache THEN cache[k] ELSE NoEntry

\* Variant of Live: Redis never answers with an entry.
Live_Never(entry) == FALSE

\* redis.Get and json.Unmarshal at the head of every cached read.
Live(entry) == entry # NoEntry /\ entry.ttl > 0

\* Variants of CacheHit: the decoding error is not looked at; the error of
\* redis.Get is not looked at.
CacheHit_NoDecode(r, entry, cacheFail) == ~cacheFail /\ Live(entry)
CacheHit_Deaf(r, entry, cacheFail) ==
    Live(entry) /\ UnmarshalOk(entry.val, Shape(r.op))

CacheHit(r, entry, cacheFail) ==
    ~cacheFail /\ Live(entry) /\ UnmarshalOk(entry.val, Shape(r.op))

MissKind(r, entry, cacheFail) ==
    IF cacheFail THEN "down"
    ELSE IF entry = NoEntry THEN "absent"
    ELSE IF entry.ttl = 0 THEN "expired"
    ELSE IF ~UnmarshalOk(entry.val, Shape(r.op)) THEN "garbage"
    ELSE "hit"

CacheGet(p, cacheFail) ==
    /\ pc[p] = "cache_get"
    /\ CacheCall(p, cacheFail, MissKind(req[p], Held(CacheKey(req[p])), cacheFail))
    /\ IF CacheHit(req[p], Held(CacheKey(req[p])), cacheFail)
       THEN /\ Finish(p, 200, Unmarshal(Held(CacheKey(req[p])).val))
            /\ lastRead' = [lastRead EXCEPT ![CacheKey(req[p])] =
                                Some(Unmarshal(Held(CacheKey(req[p])).val))]
       ELSE /\ Goto(p, "repo_query")
            /\ UNCHANGED lastRead
    /\ UNCHANGED <<limVars, issued, booted, boots, rows, nextId, cache, req, got, clean, preWrite,
                   origin>>

\* Variant of RepoRead: when the query fails, an entry still held under the
\* key (expired, or unread because redis.Get failed) is served instead.
RepoRead_FallsBackToCache(p, dbFail) ==
    /\ pc[p] = "repo_query"
    /\ LET result == RepoQuery(req[p], rows)
           err == RepoError("profile", dbFail,
                            req[p].op = "GetProfile" /\ result = NoRow, FALSE)
           held == IF req[p].op = "GetContacts" THEN NoEntry
                   ELSE cache[CacheKey(req[p])]
       IN /\ StoreCall(p, err)
          /\ IF err # ""
             THEN /\ IF held # NoEntry
                     THEN Finish(p, 200, Unmarshal(held.val))
                     ELSE Finish(p, 500, ErrorBody(req[p].op, err))
                  /\ UNCHANGED got
             ELSE /\ got' = [got EXCEPT ![p] = result]
                  /\ IF req[p].op = "GetContacts"
                     THEN Finish(p, 200, result)
                     ELSE Goto(p, "cache_set")
    /\ UNCHANGED <<limVars, issued, booted, boots, rows, nextId, cache, req, clean, histVars>>

\* The repository query of a read.  db.First on an empty profile table is
\* ErrRecordNotFound, which the service returns like any other error.
RepoRead(p, dbFail) ==
    /\ pc[p] = "repo_query"
    /\ LET result == RepoQuery(req[p], rows)
           err == RepoError("profile", dbFail,
                            req[p].op = "GetProfile" /\ result = NoRow, FALSE)
       IN /\ StoreCall(p, err)
          /\ IF err # ""
             THEN /\ Finish(p, 500, ErrorBody(req[p].op, err))
                  /\ UNCHANGED got
             ELSE /\ got' = [got EXCEPT ![p] = result]
                  /\ IF req[p].op = "GetContacts"
                     THEN Finish(p, 200, result)
                     ELSE Goto(p, "cache_set")
    /\ UNCHANGED <<limVars, issued, booted, boots, rows, nextId, cache, req, clean, histVars>>

\* Variant of Expiry: entries are set to live two hours.
Expiry_TwoHours == 2 * TicksPerHour

\* time.Hour, the expiration every redis.Set of the services passes.
Expiry == TicksPerHour

\* redis.Set(key, json, time.Hour); its error is not looked at.  The age of
\* an entry, the ticks it has lived since it was set, is history.
CacheSet(p, cacheFail) ==
    /\ pc[p] = "cache_set"
    /\ CacheCall(p, cacheFail, "")
    /\ cache' = IF cacheFail THEN cache
                ELSE (CacheKey(req[p]) :>
                         [val |-> Marshal(got[p], Shape(req[p].op)),
                          ttl |-> Expiry, age |-> 0]) @@ cache
    /\ Finish(p, 200, got[p])
    /\ lastRead' = [lastRead EXCEPT ![CacheKey(req[p])] = Some(got[p])]
    /\ origin' = IF cacheFail THEN origin
                 ELSE (CacheKey(req[p]) :> calls[p].snap) @@ origin
    /\ UNCHANGED <<limVars, issued, booted, boots, rows, nextId, req, got, clean, preWrite>>


\* Variant of RowFound: the lookup never reports a missing row.
RowFound_Always(t, id) == TRUE

\* r.db.First(&existing, id) at the head of every update and delete.
RowFound(t, id) == id \in Ids /\ t[id] # NoRow

RepoFirst(p, dbFail) ==
    /\ pc[p] = "repo_first"
    /\ LET e == EntityOf(req[p].op)
           err == RepoError(e, dbFail, ~RowFound(rows[e], req[p].id), FALSE)
       IN /\ StoreCall(p, err)
          /\ IF err # ""
             THEN /\ Finish(p, ErrorStatus(e, err), ErrorBody(req[p].op, err))
                  /\ UNCHANGED got
             ELSE /\ got' = [got EXCEPT ![p] = rows[e][req[p].id]]
                  /\ Goto(p, "repo_write")
    /\ UNCHANGED <<limVars, issued, booted, boots, rows, nextId, cache, req, clean, histVars>>

\* The row a write stores.
\*   Create, and Save of a value whose primary key is zero (UpdateProfile):
\*     INSERT under the next key.
\*   Save of a value with the key set (UpdateX): every column is written, so
\*     created_at becomes the zero time; when no row has the key the row is
\*     inserted under it.
\*   UpdateContactStatus: Save of the row First loaded, with the new status.
WrittenRow(r, loaded, next) ==
    LET e == EntityOf(r.op)
    IN CASE IsInsert(r.op) -> MkRow(e, next, r.body)
         [] r.op = "UpdateContactStatus" -> [loaded EXCEPT !.status = r.body.status]
         [] r.op = "UpdateProject" -> [id |-> r.id, created |-> FALSE] @@ r.body
         [] OTHER -> [id |-> r.id] @@ r.body

\* The table after the mutation of request r.
TableAfter(r, t, loaded, next) ==
    IF r.op \in DeleteOps THEN [t EXCEPT ![r.id] = NoRow]
    ELSE [t EXCEPT ![WrittenRow(r, loaded, next).id] = WrittenRow(r, loaded, next)]

\* Variant of RepoWrite: a mutation that fails in transport has reached the
\* table all the same.
RepoWrite_Torn(p, dbFail) ==
    /\ pc[p] = "repo_write"
    /\ LET r == req[p]
           e == EntityOf(r.op)
           row == WrittenRow(r, got[p], nextId[e])
           err == RepoError(e, dbFail, FALSE,
                            r.op \notin DeleteOps /\ UniqueViolation(e, rows[e], row))
       IN /\ StoreCall(p, err)
          /\ IF err # ""
             THEN /\ Finish(p, ErrorStatus(e, err), ErrorBody(r.op, err))
                  /\ rows' = IF r.op \notin DeleteOps /\ UniqueViolation(e, rows[e], row)
                             THEN rows
                             ELSE [rows EXCEPT ![e] =
                                     TableAfter(r, rows[e], got[p], nextId[e])]
                  /\ UNCHANGED <<nextId, got, clean, lastRead>>
             ELSE /\ rows' = [rows EXCEPT ![e] = TableAfter(r, rows[e], got[p], nextId[e])]
                  /\ nextId' = [nextId EXCEPT ![e] = IF IsInsert(r.op) THEN @ + 1 ELSE @]
                  /\ got' = [got EXCEPT ![p] = IF r.op \in DeleteOps THEN NoRow ELSE row]
                  /\ clean' = [q \in Procs |->
                                  IF q # p /\ pc[q] # "idle" /\ EntityOf(req[q].op) = e
                                  THEN FALSE
                                  ELSE clean[q]]
                  /\ lastRead' = [k \in Keys |->
                                     IF k \in KeysOf(e) THEN None ELSE lastRead[k]]
                  /\ IF e = "contact"
                     THEN Finish(p, SuccessStatus(r.op), row)
                     ELSE Goto(p, "cache_del")
    /\ UNCHANGED <<limVars, issued, booted, boots, cache, req, preWrite, origin>>

\* The single mutation of a write: Create, Save or Delete.
RepoWrite(p, dbFail) ==
    /\ pc[p] = "repo_write"
    /\ LET r == req[p]
           e == EntityOf(r.op)
           row == WrittenRow(r, got[p], nextId[e])
           err == RepoError(e, dbFail, FALSE,
                            r.op \notin DeleteOps /\ UniqueViolation(e, rows[e], row))
       IN /\ StoreCall(p, err)
          /\ IF err # ""
             THEN /\ Finish(p, ErrorStatus(e, err), ErrorBody(r.op, err))
                  /\ UNCHANGED <<rows, nextId, got, clean, lastRead>>
             ELSE /\ rows' = [rows EXCEPT ![e] = TableAfter(r, rows[e], got[p], nextId[e])]
                  /\ nextId' = [nextId EXCEPT ![e] = IF IsInsert(r.op) THEN @ + 1 ELSE @]
                  /\ got' = [got EXCEPT ![p] = IF r.op \in DeleteOps THEN NoRow ELSE row]
                  /\ clean' = [q \in Procs |->
                                  IF q # p /\ pc[q] # "idle" /\ EntityOf(req[q].op) = e
                                  THEN FALSE
                                  ELSE clean[q]]
                  /\ lastRead' = [k \in Keys |->
                                     IF k \in KeysOf(e) THEN None ELSE lastRead[k]]
                  /\ IF e = "contact"
                     THEN Finish(p, SuccessStatus(r.op), row)
                     ELSE Goto(p, "cache_del")
    /\ UNCHANGED <<limVars, issued, booted, boots, cache, req, preWrite, origin>>

\* redis.Del of the entity's keys; its error is not looked at.
CacheDel(p, cacheFail) ==
    /\ pc[p] = "cache_del"
    /\ CacheCall(p, cacheFail, "")
    /\ LET e == EntityOf(req[p].op)
       IN /\ cache' = IF cacheFail THEN cache
                      ELSE [k \in DOMAIN cache |->
                               IF k \in InvalidatedKeys(e) THEN NoEntry ELSE cache[k]]
          /\ preWrite' = [k \in Keys |->
                             IF k \in KeysOf(e) THEN preWrite[k] \/ Live(cache[k])
                             ELSE preWrite[k]]
    /\ origin' = IF cacheFail THEN origin
                 ELSE [k \in DOMAIN origin |->
                          IF k \in InvalidatedKeys(EntityOf(req[p].op)) THEN None
                          ELSE origin[k]]
    /\ Finish(p, SuccessStatus(req[p].op), got[p])
    /\ UNCHANGED <<limVars, issued, booted, boots, rows, nextId, req, got, clean, lastRead>>

\* The response has been sent; the goroutine ends.
Return(p) ==
    /\ pc[p] = "done"
    /\ pc' = [pc EXCEPT ![p] = "idle"]
    /\ req' = [req EXCEPT ![p] = IdleReq]
    /\ got' = [got EXCEPT ![p] = NoRow]
    /\ resp' = [resp EXCEPT ![p] = NoResp]
    /\ calls' = [calls EXCEPT ![p] = NoCalls]
    /\ clean' = [clean EXCEPT ![p] = TRUE]
    /\ preWrite' = IF req[p].op \in ReadOps \ {"GetContacts"} /\ resp[p].status = 200
                   THEN [preWrite EXCEPT ![CacheKey(req[p])] = FALSE]
                   ELSE preWrite
    /\ UNCHANGED <<limVars, issued, booted, boots, rows, nextId, cache, lastRead, origin>>


\* ------------------------------------------------------------------ Redis
\* Time passes: every live entry is one tick nearer to its expiry.  An
\* entry whose time is up stays in the keyspace as a dead entry until it is
\* overwritten or deleted; redis.Get answers redis.Nil for it.
Tick ==
    /\ \E k \in Keys : Live(cache[k])
    /\ cache' = [k \in DOMAIN cache |->
                    IF Live(cache[k])
                    THEN [cache[k] EXCEPT !.ttl = @ - 1, !.age = @ + 1]
                    ELSE cache[k]]
    /\ lastRead' = [k \in Keys |->
                       IF Live(cache[k]) /\ cache[k].ttl = 1 THEN None
                       ELSE lastRead[k]]
    /\ UNCHANGED <<limVars, issued, booted, boots, rows, nextId, procVars, preWrite, origin>>

\* Another client of the same Redis (an older release, an operator) leaves
\* under key k a value the service's json.Unmarshal rejects.
ForeignSet(k) ==
    /\ booted
    /\ IF cache[k] = NoEntry THEN TRUE ELSE cache[k].val # Garbage
    /\ cache' = [cache EXCEPT ![k] = [val |-> Garbage, ttl |-> TicksPerHour, age |-> 0]]
    /\ lastRead' = [lastRead EXCEPT ![k] = None]
    /\ origin' = [origin EXCEPT ![k] = None]
    /\ UNCHANGED <<limVars, issued, booted, boots, rows, nextId, procVars, preWrite>>

\* ------------------------------------------------------------------ handlers
GetProfile(p) == Request(p, "GetProfile", 0, NoBody, <<>>)
UpdateProfile(p, body, auth) == Request(p, "UpdateProfile", 0, body, auth)

GetExperiences(p) == Request(p, "GetExperiences", 0, NoBody, <<>>)
CreateExperience(p, body, auth) == Request(p, "CreateExperience", 0, body, auth)
UpdateExperience(p, id, body, auth) == Request(p, "UpdateExperience", id, body, auth)
DeleteExperience(p, id, auth) == Request(p, "DeleteExperience", id, NoBody, auth)

GetSkills(p) == Request(p, "GetSkills", 0, NoBody, <<>>)
CreateSkill(p, body, auth) == Request(p, "CreateSkill", 0, body, auth)
UpdateSkill(p, id, body, auth) == Request(p, "UpdateSkill", id, body, auth)
DeleteSkill(p, id, auth) == Request(p, "DeleteSkill", id, NoBody, auth)

FeaturedParams == {"", "true", "false", "yes"}
GetProjects(p, featured) ==
    Request(p, "GetProjects", 0, [featured |-> featured], <<>>)
CreateProject(p, body, auth) == Request(p, "CreateProject", 0, body, auth)
UpdateProject(p, id, body, auth) == Request(p, "UpdateProject", id, body, auth)
DeleteProject(p, id, auth) == Request(p, "DeleteProject", id, NoBody, auth)

CreateContact(p, body) == Request(p, "CreateContact", 0, body, <<>>)
GetContacts(p, auth) == Request(p, "GetContacts", 0, NoBody, auth)
UpdateContactStatus(p, id, body, auth) ==
    Request(p, "UpdateContactStatus", id, body, auth)

\* AuthService.Login: whether it returns the error, and the response with
\* the token when it does not.
LoginFails(body) == body.username = "" \/ body.password = ""
\* Variant of LoginResponse: the token carries another marker.
LoginResponse_OtherMarker(body) ==
    [token |-> <<"jwt-", body.username>>,
     user |-> [id |-> 1, username |-> body.username, email |-> "admin@example.com",
               role |-> "admin"]]

LoginResponse(body) ==
    [token |-> <<"demo-jwt-token-", body.username>>,
     user |-> [id |-> 1, username |-> body.username,
               email |-> "admin@example.com", role |-> "admin"]]

\* POST /auth/login: binding (both fields required), then AuthService.Login.
\* Neither the Store nor the Cache is called.
Login(p, body) ==
    /\ booted
    /\ pc[p] = "idle"
    /\ req' = [req EXCEPT ![p] =
                  [op |-> "Login", path |-> "", id |-> 0, body |-> body,
                   auth |-> <<>>]]
    /\ IF body.username = "" \/ body.password = ""
       THEN Finish(p, 400, "binding error")
       ELSE IF LoginFails(body)
       THEN Finish(p, 401, "Invalid credentials")
       ELSE Finish(p, 200, LoginResponse(body))
    /\ issued' = IF LoginFails(body) THEN issued
                 ELSE issued \cup {LoginResponse(body).token}
    /\ UNCHANGED <<booted, boots, rows, nextId, cache, got, calls, clean, histVars>>

\* ------------------------------------------------------------------ runs
\* Tables and cache keys of different entities are disjoint, so a run is
\* explored for one entity at a time: requests on entity e are admitted
\* while every other entity is as seeding left it.
Untouched(o) ==
    /\ nextId[o] = SeedNextId(o)
    /\ rows[o] = SeedTables[o]
    /\ \A k \in KeysOf(o) :
          /\ cache[k] = NoEntry /\ ~preWrite[k]
          /\ lastRead[k] = None /\ origin[k] = None
    /\ \A q \in Procs : pc[q] # "idle" => EntityOf(req[q].op) # o
Focus(e) == \A o \in Entities \ {e} : Untouched(o)

\* Requests served one at a time: no other request is open.  Which
\* goroutine serves is immaterial then, so it is the first.
Alone(p) == p = 1 /\ \A q \in Procs \ {p} : pc[q] = "idle"

\* A request on entity e is admitted; solo says whether requests are served
\* one at a time, in.mixed whether the run goes from entity to entity.
Admit(p, e, in, solo) == (solo => Alone(p)) /\ (in.mixed \/ Focus(e))

ProfileRequest(p, in, solo) ==
    \/ Admit(p, "profile", in, solo) /\
          \E gap \in in.gaps :
             RateLimit("GetProfile", gap) /\
             GetProfile(p)
    \/ Admit(p, "profile", in, solo) /\
          \E gap \in in.gaps :
             RateLimit("UpdateProfile", gap) /\
             \E body \in in.profile, auth \in in.auths :
                UpdateProfile(p, body, auth)

ExperienceRequest(p, in, solo) ==
    \/ Admit(p, "experience", in, solo) /\
          \E gap \in in.gaps :
             RateLimit("GetExperiences", gap) /\
             GetExperiences(p)
    \/ Admit(p, "experience", in, solo) /\
          \E gap \in in.gaps :
             RateLimit("CreateExperience", gap) /\
             \E body \in in.experience, auth \in in.auths :
                CreateExperience(p, body, auth)
    \/ Admit(p, "experience", in, solo) /\
          \E gap \in in.gaps :
             RateLimit("UpdateExperience", gap) /\
             \E id \in in.ids, body \in in.experience, auth \in in.auths :
                UpdateExperience(p, id, body, auth)
    \/ Admit(p, "experience", in, solo) /\
          \E gap \in in.gaps :
             RateLimit("DeleteExperience", gap) /\
             \E id \in in.ids, auth \in in.auths : DeleteExperience(p, id, auth)

SkillRequest(p, in, solo) ==
    \/ Admit(p, "skill", in, solo) /\
          \E gap \in in.gaps :
             RateLimit("GetSkills", gap) /\
             GetSkills(p)
    \/ Admit(p, "skill", in, solo) /\
          \E gap \in in.gaps :
             RateLimit("CreateSkill", gap) /\
             \E body \in in.skill, auth \in in.auths :
                CreateSkill(p, body, auth)
    \/ Admit(p, "skill", in, solo) /\
          \E gap \in in.gaps :
             RateLimit("UpdateSkill", gap) /\
             \E id \in in.ids, body \in in.skill, auth \in in.auths :
                UpdateSkill(p, id, body, auth)
    \/ Admit(p, "skill", in, solo) /\
          \E gap \in in.gaps :
             RateLimit("DeleteSkill", gap) /\
             \E id \in in.ids, auth \in in.auths : DeleteSkill(p, id, auth)

ProjectRequest(p, in, solo) ==
    \/ Admit(p, "project", in, solo) /\
          \E gap \in in.gaps :
             RateLimit("GetProjects", gap) /\
             \E featured \in in.featured : GetProjects(p, featured)
    \/ Admit(p, "project", in, solo) /\
          \E gap \in in.gaps :
             RateLimit("CreateProject", gap) /\
             \E body \in in.project, auth \in in.auths :
                CreateProject(p, body, auth)
    \/ Admit(p, "project", in, solo) /\
          \E gap \in in.gaps :
             RateLimit("UpdateProject", gap) /\
             \E id \in in.ids, body \in in.project, auth \in in.auths :
                UpdateProject(p, id, body, auth)
    \/ Admit(p, "project", in, solo) /\
          \E gap \in in.gaps :
             RateLimit("DeleteProject", gap) /\
             \E id \in in.ids, auth \in in.auths : DeleteProject(p, id, auth)

ContactRequest(p, in, solo) ==
    \/ Admit(p, "contact", in, solo) /\
          \E gap \in in.gaps :
             RateLimit("CreateContact", gap) /\
             \E body \in in.contact : CreateContact(p, body)
    \/ Admit(p, "contact", in, solo) /\
          \E gap \in in.gaps :
             RateLimit("GetContacts", gap) /\
             \E auth \in in.auths : GetContacts(p, auth)
    \/ Admit(p, "contact", in, solo) /\
          \E gap \in in.gaps :
             RateLimit("UpdateContactStatus", gap) /\
             \E id \in in.ids, body \in in.status, auth \in in.auths :
                UpdateContactStatus(p, id, body, auth)

\* The reads of one row by its id that a client may ask for.  setupRouter
\* registers no route for them (the only GET routes are the listings), so
\* after the global middleware gin's default NoRoute handler answers.
GetByIdOps == {"GetExperience", "GetSkill", "GetContact"}
NoRoute(p, in, solo) ==
    /\ solo => Alone(p)
    /\ booted
    /\ pc[p] = "idle"
    /\ \E op \in GetByIdOps :
          /\ \E gap \in in.gaps : RateLimit(op, gap)
          /\ \E id \in in.ids, auth \in in.auths :
                req' = [req EXCEPT ![p] =
                          [IdleReq EXCEPT !.op = op, !.path = id, !.auth = auth]]
    /\ Finish(p, 404, "404 page not found")
    /\ UNCHANGED <<booted, boots, rows, nextId, cache, got, calls, clean, histVars, issued>>

\* GET /health: registered on the router itself, behind the global
\* middleware only; the handler answers from constants.
HealthCheck(p, in, solo) ==
    /\ solo => Alone(p)
    /\ booted
    /\ pc[p] = "idle"
    /\ \E gap \in in.gaps : RateLimit("HealthCheck", gap)
    /\ req' = [req EXCEPT ![p] = [IdleReq EXCEPT !.op = "HealthCheck"]]
    /\ Finish(p, 200, [status |-> "healthy"])
    /\ UNCHANGED <<booted, boots, rows, nextId, cache, got, calls, clean, histVars, issued>>

LoginRequest(p, in, solo) ==
    (solo => Alone(p)) /\
       \E gap \in in.gaps :
          RateLimit("Login", gap) /\
          \E body \in in.login : Login(p, body)

\* Every request the clients send.
AllInputs ==
    [auths |-> AuthHeaders, profile |-> ProfileInputs, experience |-> ExperienceInputs,
     skill |-> SkillInputs, project |-> ProjectInputs, contact |-> ContactInputs,
     status |-> StatusInputs, featured |-> FeaturedParams, gaps |-> {1}, mixed |-> FALSE,
     ids |-> PathIds, login |-> LoginInputs]

\* The requests of the public and of a logged-in admin that pass binding.
AdminHeaders == { <<"Bearer ", "demo-jwt-token-", "admin">> }
AdminInputs ==
    [auths |-> AdminHeaders,
     profile |-> {b \in ProfileInputs : b.name # ""},
     experience |-> {b \in ExperienceInputs : b.company # ""},
     skill |-> {b \in SkillInputs : b.name # ""},
     project |-> {b \in ProjectInputs : b.name # ""},
     contact |-> {b \in ContactInputs : b.name # ""},
     status |-> {b \in StatusInputs : b.status # ""},
     featured |-> FeaturedParams, gaps |-> {1}, mixed |-> FALSE, ids |-> PathIds,
     login |-> LoginInputs]

\* Variant of Step: a write waits while another request stands between its
\* First and its Save / Delete.
Step_WriteWaits(p, cacheFail, dbFail) ==
    /\ pc[p] = "repo_write" => \A q \in Procs \ {p} : pc[q] # "repo_write"
    /\ \/ CacheGet(p, cacheFail)
       \/ RepoRead(p, dbFail)
       \/ CacheSet(p, cacheFail)
       \/ RepoFirst(p, dbFail)
       \/ RepoWrite(p, dbFail)
       \/ CacheDel(p, cacheFail)
       \/ Return(p)

\* One step of request p; cacheFail / dbFail say whether the Redis call or
\* the database call of the step fails in transport.
Step(p, cacheFail, dbFail) ==
    \/ CacheGet(p, cacheFail)
    \/ RepoRead(p, dbFail)
    \/ CacheSet(p, cacheFail)
    \/ RepoFirst(p, dbFail)
    \/ RepoWrite(p, dbFail)
    \/ CacheDel(p, cacheFail)
    \/ Return(p)

\* Requests served one at a time; Redis and the database always answer.
NextSeq ==
    \/ Initialize
    \/ \E p \in Procs :
          \/ ProfileRequest(p, AllInputs, TRUE)
          \/ ExperienceRequest(p, AllInputs, TRUE)
          \/ SkillRequest(p, AllInputs, TRUE)
          \/ ProjectRequest(p, AllInputs, TRUE)
          \/ ContactRequest(p, AllInputs, TRUE)
    \/ \E p \in Procs : Step(p, FALSE, FALSE)
SpecSeq == Init /\ [][NextSeq]_vars

\* Requests served one at a time while time passes and cache entries expire;
\* Redis and the database always answer.  Projects are written with one
\* body and listed with featured=true.
ClockInputs ==
    [AdminInputs EXCEPT !.project = {b \in ProjectInputs : b.name = "P2"},
                        !.featured = {"true"}]
NextClock ==
    \/ Initialize
    \/ Tick
    \/ \E p \in Procs :
          \/ ProfileRequest(p, ClockInputs, TRUE)
          \/ ExperienceRequest(p, ClockInputs, TRUE)
          \/ ProjectRequest(p, ClockInputs, TRUE)
          \/ ContactRequest(p, ClockInputs, TRUE)
    \/ \E p \in Procs : Step(p, FALSE, FALSE)
SpecClock == Init /\ [][NextClock]_vars

\* Requests served concurrently (profile, experiences, contacts); Redis and
\* the database always answer.  Experiences are written with one body.
RaceInputs ==
    [AdminInputs EXCEPT !.experience = {b \in ExperienceInputs : b.company = "Acme"}]
NextConc ==
    \/ Initialize
    \/ \E p \in Procs :
          \/ ProfileRequest(p, RaceInputs, FALSE)
          \/ ExperienceRequest(p, RaceInputs, FALSE)
          \/ ContactRequest(p, RaceInputs, FALSE)
    \/ \E p \in Procs : Step(p, FALSE, FALSE)
SpecConc == Init /\ [][NextConc]_vars

\* Requests served one at a time (profile, experiences, skills), with Redis
\* and database calls that may fail, cache entries that expire and foreign
\* values in the cache.  Experiences and skills are written with one body.
\* A step makes one call, to Redis or to the database, which fails or not.
FaultInputs ==
    [RaceInputs EXCEPT !.skill = {b \in SkillInputs : b.name = "Rust"}]
NextFault ==
    \/ Initialize
    \/ Tick
    \/ \E k \in Keys : Focus(KeyEntity(k)) /\ ForeignSet(k)
    \/ \E p \in Procs :
          \/ ProfileRequest(p, FaultInputs, TRUE)
          \/ ExperienceRequest(p, FaultInputs, TRUE)
          \/ SkillRequest(p, FaultInputs, TRUE)
    \/ \E p \in Procs, fail \in BOOLEAN : Step(p, fail, fail)
SpecFault == Init /\ [][NextFault]_vars

\* Requests that arrive in bursts, served one at a time (profile, contacts):
\* a request arrives in the second of the one before it or a second later.
\* Redis and the database always answer.
BurstInputs ==
    [AdminInputs EXCEPT !.gaps = {0, 1},
                        !.auths = AdminHeaders \cup {<<>>},
                        !.profile = {b \in ProfileInputs :
                                        b.email = "new@x.com" /\ b.name # ""},
                        !.contact = {b \in ContactInputs :
                                        /\ b.name # ""
                                        /\ DOMAIN b = {"name", "email", "message"}}]
NextBurst ==
    \/ Initialize
    \/ \E p \in Procs :
          \/ ProfileRequest(p, BurstInputs, TRUE)
          \/ ContactRequest(p, BurstInputs, TRUE)
          \/ HealthCheck(p, BurstInputs, TRUE)
    \/ \E p \in Procs, op \in ReadOps \cup WriteOps, gap \in BurstInputs.gaps :
          Admit(p, EntityOf(op), BurstInputs, TRUE) /\ EntityOf(op) \in {"profile", "contact"}
             /\ TooManyRequests(p, op, gap)
    \/ \E p \in Procs, gap \in BurstInputs.gaps :
          Alone(p) /\ TooManyRequests(p, "HealthCheck", gap)
    \/ \E p \in Procs : Step(p, FALSE, FALSE)
SpecBurst == Init /\ [][NextBurst]_vars

\* Requests that go from entity to entity (skills, projects, contacts,
\* login), served one at a time: the keys of one entity are populated while
\* another entity is read and written.  Skills and projects are written
\* with one body, under the first id.
FrameInputs ==
    [AdminInputs EXCEPT !.mixed = TRUE,
                        !.ids = {NumeralOf(1)},
                        !.skill = {b \in SkillInputs : b.name = "Rust"},
                        !.project = {b \in ProjectInputs : b.name = "P2"},
                        !.featured = {"", "true"},
                        !.contact = {b \in ContactInputs :
                                        /\ b.name # ""
                                        /\ DOMAIN b = {"name", "email", "message"}},
                        !.login = {b \in LoginInputs : b.username = "admin"}]
NextFrame ==
    \/ Initialize
    \/ \E p \in Procs :
          \/ SkillRequest(p, FrameInputs, TRUE)
          \/ ProjectRequest(p, FrameInputs, TRUE)
          \/ ContactRequest(p, FrameInputs, TRUE)
          \/ LoginRequest(p, FrameInputs, TRUE)
    \/ \E p \in Procs : Step(p, FALSE, FALSE)
SpecFrame == Init /\ [][NextFrame]_vars

\* Requests on the experiences served concurrently, each goroutine being
\* scheduled again and again and every Redis and database call returning.
NextLive ==
    \/ Initialize
    \/ \E p \in Procs : ExperienceRequest(p, RaceInputs, FALSE)
    \/ \E p \in Procs : Step(p, FALSE, FALSE)
SpecLive ==
    Init /\ [][NextLive]_vars /\ \A p \in Procs : WF_vars(Step(p, FALSE, FALSE))

\* The server restarted between requests served one at a time (profile,
\* experiences).  Redis and the database always answer.
NextBoot ==
    \/ Initialize
    \/ Restart
    \/ \E p \in Procs :
          \/ ProfileRequest(p, AdminInputs, TRUE)
          \/ ExperienceRequest(p, AdminInputs, TRUE)
    \/ \E p \in Procs : Step(p, FALSE, FALSE)
SpecBoot == Init /\ [][NextBoot]_vars

\* Requests of a logged-in admin and the public whose path or body the
\* handler may refuse (experiences, skills, contacts, login) or that the
\* router has no route for, served one at a time.
\* Redis and the database always answer.
BindInputs ==
    [AdminInputs EXCEPT !.ids = PathIds \cup {"abc", "-1"},
                        !.experience = {b \in ExperienceInputs : b.company # "Company1"},
                        !.skill = {b \in SkillInputs : b.name # "Go"} \cup SkillLevelInputs,
                        !.contact = {b \in ContactInputs : DOMAIN b = {"name", "email", "message"}}
                                        \cup ContactEmailInputs,
                        !.status = StatusInputs]
NextBind ==
    \/ Initialize
    \/ \E p \in Procs :
          \/ ExperienceRequest(p, BindInputs, TRUE)
          \/ SkillRequest(p, BindInputs, TRUE)
          \/ ContactRequest(p, BindInputs, TRUE)
          \/ LoginRequest(p, BindInputs, TRUE)
          \/ NoRoute(p, BindInputs, TRUE)
    \/ \E p \in Procs : Step(p, FALSE, FALSE)
SpecBind == Init /\ [][NextBind]_vars

\* Logins and requests under every kind of Authorization header (profile,
\* contacts), served one at a time while time passes.  Redis and the database
\* always answer.
AuthInputs ==
    [AdminInputs EXCEPT !.auths = AuthHeaders \cup
                                     { <<"Bearer ", "demo-jwt-token-">>,
                                       <<"Bearer ", "demo-jwt-token-", "mallory">> },
                        !.profile = {b \in ProfileInputs :
                                        b.email = "new@x.com" /\ b.name # ""},
                        !.contact = {b \in ContactInputs :
                                        /\ b.name # ""
                                        /\ DOMAIN b = {"name", "email", "message"}}]
NextAuth ==
    \/ Initialize
    \/ Tick
    \/ \E p \in Procs :
          \/ LoginRequest(p, AuthInputs, TRUE)
          \/ ProfileRequest(p, AuthInputs, TRUE)
          \/ ContactRequest(p, AuthInputs, TRUE)
    \/ \E p \in Procs : Step(p, FALSE, FALSE)
SpecAuth == Init /\ [][NextAuth]_vars

Next == NextConc
Spec == SpecConc

\* ------------------------------------------------------------------ claims
CachedReads == ReadOps \ {"GetContacts"}
Succeeded(p) == pc[p] = "done" /\ resp[p].status \in {200, 201, 204}
\* Request p is a cached read that has answered 200.
ReadDone(p) == pc[p] = "done" /\ req[p].op \in CachedReads /\ resp[p].status = 200

\* C1 (SpecSeq): with requests served one at a time and Redis answering,
\* the first read through a key that was populated when a successful write
\* to its entity returned answers what the Store holds after that write.
C1_ReadAfterWriteIsFresh ==
    \A p \in Procs :
        ReadDone(p) /\ preWrite[CacheKey(req[p])]
            => resp[p].body = RepoQuery(req[p], rows)
\* Such a read has happened, it went to the Store, and what it answered is
\* not what seeding left.
C1_Witness ==
    \E p \in Procs :
        /\ ReadDone(p) /\ preWrite[CacheKey(req[p])]
        /\ calls[p].store = 1
        /\ resp[p].body = RepoQuery(req[p], rows)
        /\ resp[p].body # RepoQuery(req[p], SeedTables)

\* C2 (SpecConc): a read that began when no request on its entity was in
\* flight, with no write to that entity committed since, answers what the
\* Store holds (so never a value from before a write that had returned).
C2_NoStaleReadAfterQuiescence ==
    \A p \in Procs :
        ReadDone(p) /\ clean[p] => resp[p].body = RepoQuery(req[p], rows)

ProjectWrites == {"CreateProject", "UpdateProject", "DeleteProject"}
ProjectKeys == {"projects", "projects:featured", "projects:non-featured"}
\* C3 (SpecSeq): when a create, update or delete of a project has succeeded,
\* none of the three project keys is in the cache.
C3_ProjectWriteClearsAllKeys ==
    \A p \in Procs :
        Succeeded(p) /\ req[p].op \in ProjectWrites
            => \A k \in ProjectKeys : cache[k] = NoEntry
\* A project write has succeeded with all three keys populated before it.
C3_Witness ==
    \E p \in Procs :
        /\ Succeeded(p) /\ req[p].op \in ProjectWrites
        /\ \A k \in ProjectKeys : preWrite[k] /\ cache[k] = NoEntry

\* C4 (SpecSeq): once seeded, the profile table holds exactly one row,
\* whatever UpdateProfile calls have been served.
C4_ExactlyOneProfileRow ==
    booted => Cardinality(Present("profile")) = 1

\* C5 (SpecSeq): when UpdateProfile has answered 200, the profile row that
\* GetProfile queries carries the submitted values.
C5_UpdateProfileIsReadBack ==
    \A p \in Procs :
        Succeeded(p) /\ req[p].op = "UpdateProfile"
            => /\ RepoGetProfile(rows["profile"]).name = req[p].body.name
               /\ RepoGetProfile(rows["profile"]).email = req[p].body.email

\* C6 (SpecSeq): an update or delete whose id names no row answers 404 at
\* its lookup, which is its only call, and leaves the tables and the cache
\* as they were.
C6_MissingIdIsNotFound ==
    [][\A p \in Procs :
          /\ pc[p] = "repo_first" /\ pc'[p] # "repo_first"
          /\ rows[EntityOf(req[p].op)][req[p].id] = NoRow
          => /\ pc'[p] = "done"
             /\ resp'[p].status = 404
             /\ calls'[p].store = 1 /\ calls'[p].cache = 0
             /\ rows' = rows /\ nextId' = nextId /\ cache' = cache]_vars
\* An update or delete has answered 404 while a key of its entity was
\* populated.
C6_Witness ==
    \E p \in Procs :
        /\ pc[p] = "done" /\ req[p].op \in ByIdOps /\ resp[p].status = 404
        /\ rows[EntityOf(req[p].op)][req[p].id] = NoRow
        /\ \E k \in KeysOf(EntityOf(req[p].op)) : cache[k] # NoEntry

\* A header that carries a bearer token with the demo marker.
Credential(h) == Len(h) >= 2 /\ h[1] = "Bearer " /\ h[2] = "demo-jwt-token-"
\* C7 (SpecSeq): an /admin request without such a header (none, no Bearer
\* prefix, empty token, other token) is answered 401 on arrival: it issues no
\* Store or Cache call and the tables and the cache stay as they were.
C7_AdminNeedsCredential ==
    [][\A p \in Procs :
          pc'[p] # "idle" /\ IsAdmin(req'[p].op) /\ ~Credential(req'[p].auth)
          => /\ pc'[p] = "done"
             /\ resp'[p].status = 401
             /\ calls'[p] = NoCalls /\ got'[p] = NoRow
             /\ pc[p] = "idle" =>
                   rows' = rows /\ nextId' = nextId /\ cache' = cache]_vars
\* A status update with an invalid token has been answered 401 while the
\* contact it could have named is in the table.
C7_Witness ==
    \E p \in Procs :
        /\ pc[p] = "done" /\ req[p].op = "UpdateContactStatus"
        /\ req[p].auth = <<"Bearer ", "nonsense">>
        /\ resp[p].status = 401
        /\ rows["contact"][1] # NoRow /\ rows["contact"][1].status = "new"

\* What redis.Get finds under the key of read p.
EntryOf(p) == Held(CacheKey(req[p]))
Usable(entry, shape) ==
    IF entry = NoEntry THEN FALSE
    ELSE entry.ttl > 0 /\ entry.val.fmt = "json" /\ entry.val.shape = shape
Fresh(v, shape) ==
    [val |-> [fmt |-> "json", shape |-> shape, data |-> v],
     ttl |-> TicksPerHour, age |-> 0]

\* C8 (SpecFault): a read that finds its key absent, expired or holding a
\* value that does not decode takes it as a miss: it answers nothing yet and
\* queries the Store; what the Store returns is what it answers with 200,
\* and what it sets under the key with a full hour to live.
C8_UnusableEntryIsMiss ==
    [][\A p \in Procs : req[p].op \in CachedReads =>
          /\ ( /\ pc[p] = "cache_get" /\ pc'[p] # "cache_get"
               /\ ~Usable(EntryOf(p), Shape(req[p].op)) )
             => pc'[p] = "repo_query" /\ resp'[p] = NoResp
          /\ ( /\ pc[p] = "repo_query" /\ pc'[p] # "repo_query"
               /\ calls'[p].storeErrs = 0 )
             => pc'[p] = "cache_set" /\ got'[p] = RepoQuery(req[p], rows)
          /\ (pc[p] = "cache_set" /\ pc'[p] # "cache_set")
             => /\ pc'[p] = "done"
                /\ resp'[p] = [status |-> 200, body |-> got[p]]
                /\ calls'[p].cacheErrs = calls[p].cacheErrs
                      => cache'[CacheKey(req[p])] = Fresh(got[p], Shape(req[p].op))
      ]_vars
\* A read has found a value that does not decode, answered what the Store
\* holds and left it under the key.
C8_Witness ==
    \E p \in Procs :
        /\ ReadDone(p) /\ calls[p].miss = "garbage" /\ calls[p].cacheErrs = 0
        /\ resp[p].body = RepoQuery(req[p], rows)
        /\ EntryOf(p) = Fresh(resp[p].body, Shape(req[p].op))

\* C9 (SpecFault): a Redis call that fails in transport does not change what
\* the request answers: a failed Get goes on to the Store, a failed Set
\* still answers the Store's result with 200, a failed Del still answers
\* the write's result with its success status.
C9_CacheFailureIsSilent ==
    [][\A p \in Procs :
          /\ calls'[p].cacheErrs > calls[p].cacheErrs =>
                /\ pc[p] = "cache_get" => pc'[p] = "repo_query" /\ resp'[p] = NoResp
                /\ pc[p] = "cache_set" =>
                      pc'[p] = "done" /\ resp'[p] = [status |-> 200, body |-> got[p]]
                /\ pc[p] = "cache_del" =>
                      /\ pc'[p] = "done" /\ rows' = rows
                      /\ resp'[p] = [status |-> SuccessStatus(req[p].op),
                                     body |-> got[p]]
          /\ ( /\ pc'[p] = "done" /\ req'[p].op \in CachedReads
               /\ calls'[p].cacheErrs > 0 /\ calls'[p].storeErrs = 0 )
             => /\ resp'[p].status = 200
                /\ resp'[p].body = RepoQuery(req'[p], rows')
      ]_vars
\* A write has answered its success status although its Del failed and the
\* entry it should have removed is still there.
C9_Witness ==
    \E p \in Procs :
        /\ Succeeded(p) /\ req[p].op \in WriteOps
        /\ resp[p].status = SuccessStatus(req[p].op)
        /\ calls[p].cacheErrs = 1
        /\ \E k \in KeysOf(EntityOf(req[p].op)) : cache[k] # NoEntry

\* C10 (SpecClock): a read that finds a usable entry answers the decoded
\* entry without a Store call; and a read through a key that a read has
\* answered through, with no write to the entity and no expiry of the entry
\* since, answers the same value from the cache.
C10_HitServesCache ==
    [][\A p \in Procs :
          ( /\ req[p].op \in CachedReads
            /\ pc[p] = "cache_get" /\ pc'[p] # "cache_get" )
          => /\ Usable(EntryOf(p), Shape(req[p].op)) =>
                   /\ pc'[p] = "done"
                   /\ resp'[p] = [status |-> 200, body |-> EntryOf(p).val.data]
                   /\ calls'[p].store = 0
             /\ lastRead[CacheKey(req[p])] # None =>
                   /\ pc'[p] = "done"
                   /\ resp'[p].status = 200
                   /\ resp'[p].body \in lastRead[CacheKey(req[p])]
                   /\ calls'[p].store = 0
      ]_vars
\* A listing of the featured projects has been answered from an entry that
\* is part of its hour old, with the value the entry holds.
C10_Witness ==
    \E p \in Procs :
        /\ ReadDone(p) /\ calls[p].miss = "hit" /\ calls[p].store = 0
        /\ CacheKey(req[p]) = "projects:featured"
        /\ EntryOf(p) # NoEntry
        /\ EntryOf(p).ttl \in 1..(TicksPerHour - 1)
        /\ resp[p].body = EntryOf(p).val.data

\* C11 (SpecFault): when the Store query of a cached read fails, the read
\* answers 500 at that step, the cache is left as it was (the key is not
\* written) and the request makes no further call; what it answers is the
\* error, not an entry of the cache.
C11_FailedStoreReadIsError ==
    [][\A p \in Procs :
          ( /\ req[p].op \in CachedReads /\ pc[p] = "repo_query"
            /\ calls'[p].storeErrs > calls[p].storeErrs )
          => /\ pc'[p] = "done"
             /\ resp'[p].status = 500
             /\ resp'[p].body = "Failed to get"
             /\ cache' = cache
             /\ calls'[p].cache = 1 /\ calls'[p].store = 1
      ]_vars
\* A read has answered 500 after its Store query failed, while its key
\* held a decodable entry that had expired.
C11_Witness ==
    \E p \in Procs :
        /\ pc[p] = "done" /\ req[p].op \in CachedReads
        /\ resp[p].status = 500 /\ calls[p].storeErrs = 1
        /\ calls[p].miss = "expired"
        /\ EntryOf(p) # NoEntry
        /\ EntryOf(p).val.fmt = "json"

\* C12 (SpecFault): a write reaches its redis.Del only from its Store
\* mutation, and only when every Store call it made succeeded; a write
\* whose Store call fails (no such row, unique index, transport) ends at
\* that step with an error status, having made no Cache call, and leaves
\* the cache and the tables as they were.
C12_InvalidateOnlyAfterCommit ==
    [][\A p \in Procs :
          /\ (pc'[p] = "cache_del" /\ pc[p] # "cache_del")
             => /\ pc[p] = "repo_write"
                /\ calls'[p].store >= 1 /\ calls'[p].storeErrs = 0
                /\ calls'[p].cache = 0
          /\ ( /\ req[p].op \in WriteOps
               /\ calls'[p].storeErrs > calls[p].storeErrs )
             => /\ pc'[p] = "done"
                /\ resp'[p].status \in {404, 500}
                /\ calls'[p].cache = 0
                /\ cache' = cache /\ rows' = rows /\ nextId' = nextId
      ]_vars
\* A CreateSkill has answered 500 with a row of its name in the table,
\* while the skills key is populated.
C12_Witness ==
    \E p \in Procs :
        /\ pc[p] = "done" /\ req[p].op = "CreateSkill"
        /\ resp[p].status = 500 /\ calls[p].storeErrs = 1
        /\ \E i \in Ids : /\ rows["skill"][i] # NoRow
                           /\ rows["skill"][i].name = req[p].body.name
        /\ cache["skills"] # NoEntry /\ cache["skills"].ttl > 0

\* C13 (SpecSeq): a contact row appears only through CreateContact, with
\* status "new" and the name, email and message of the form, whatever else
\* the body carries; a stored contact changes only through an
\* UpdateContactStatus that carries the credential, and only in its status.
C13_ContactLifecycle ==
    [][\A i \in Ids :
          /\ (rows["contact"][i] = NoRow /\ rows'["contact"][i] # NoRow)
             => /\ rows'["contact"][i].status = "new"
                /\ \E p \in Procs :
                      /\ req[p].op = "CreateContact" /\ pc[p] = "repo_write"
                      /\ pc'[p] = "done" /\ resp'[p].status = 201
                      /\ rows'["contact"][i].name = req[p].body.name
                      /\ rows'["contact"][i].email = req[p].body.email
                      /\ rows'["contact"][i].message = req[p].body.message
          /\ (rows["contact"][i] # NoRow /\ rows'["contact"][i] # rows["contact"][i])
             => \E p \in Procs :
                   /\ req[p].op = "UpdateContactStatus" /\ req[p].id = i
                   /\ Credential(req[p].auth)
                   /\ pc[p] = "repo_write" /\ pc'[p] = "done"
                   /\ rows'["contact"][i] =
                         [rows["contact"][i] EXCEPT !.status = req[p].body.status]
      ]_vars
\* A form sent without a credential and carrying status "replied" has been
\* answered 201 and its row has status "new".
C13_Witness ==
    \E p \in Procs :
        /\ pc[p] = "done" /\ req[p].op = "CreateContact" /\ resp[p].status = 201
        /\ req[p].auth = <<>>
        /\ "status" \in DOMAIN req[p].body /\ req[p].body.status = "replied"
        /\ rows["contact"][resp[p].body.id].status = "new"

\* Request p arrives in this step / is turned away by the limiter in it.
Arrives(p) == pc[p] = "idle" /\ pc'[p] # "idle"
TurnedAway(p) == Arrives(p) /\ pc'[p] = "done" /\ resp'[p].status = 429

\* C14 (SpecBurst): a request that is more than the Burst-th of its second
\* is answered 429; a request turned away is answered at once and touches
\* neither the Store nor the Cache, and the requests in flight go on; the
\* first request of a later second is never turned away, however many were
\* turned away before it.
C14_LimitedThenAdmittedAgain ==
    [][\A p \in Procs :
          /\ (Arrives(p) /\ arrivals'.all > Burst) => TurnedAway(p)
          /\ TurnedAway(p)
                => /\ resp'[p].body = "Rate limit exceeded"
                   /\ calls'[p] = NoCalls
                   /\ rows' = rows /\ nextId' = nextId /\ cache' = cache
                   /\ \A q \in Procs \ {p} : pc'[q] = pc[q] /\ resp'[q] = resp[q]
          /\ (Arrives(p) /\ arrivals'.all = 1) => ~TurnedAway(p)
      ]_vars
\* A request has been answered 200 as the first of its second, with the
\* one token the bucket, emptied before, had gained since.
C14_Witness ==
    \E p \in Procs :
        /\ pc[p] = "done" /\ resp[p].status = 200
        /\ arrivals.all = 1 /\ tokens = 0

\* C15 (SpecBurst): a request that is at most the tenth of its second is
\* admitted, and a contact form that is not the first of its second is
\* turned away.
C15_TenPerSecondOneForContact ==
    [][\A p \in Procs :
          /\ (Arrives(p) /\ arrivals'.all <= 10) => ~TurnedAway(p)
          /\ (Arrives(p) /\ req'[p].op = "CreateContact" /\ arrivals'.contact > 1)
                => TurnedAway(p)
      ]_vars

\* The value under the key of read p is a list or row the Store no longer
\* answers with.
Stale(p) ==
    /\ EntryOf(p) # NoEntry
    /\ EntryOf(p).val.fmt = "json"
    /\ EntryOf(p).val # Marshal(RepoQuery(req[p], rows), Shape(req[p].op))

\* C16 (SpecFault): every entry a read sets has exactly one hour to live;
\* a read is served from the cache only by an entry set less than an hour
\* before, stale or not; a read that finds its key deleted, or holding an
\* entry set an hour or more before, queries the Store.
C16_EntryLivesOneHour ==
    [][\A p \in Procs :
          /\ (pc[p] = "cache_set" /\ pc'[p] = "done" /\ EntryOf(p)' # EntryOf(p))
                => EntryOf(p)'.ttl = TicksPerHour /\ EntryOf(p)'.age = 0
          /\ (pc[p] = "cache_get" /\ pc'[p] = "done")
                => EntryOf(p) # NoEntry /\ EntryOf(p).age < TicksPerHour
          /\ ( /\ pc[p] = "cache_get" /\ pc'[p] # pc[p]
               /\ IF EntryOf(p) = NoEntry THEN TRUE
                  ELSE EntryOf(p).age >= TicksPerHour )
                => pc'[p] = "repo_query" /\ resp'[p] = NoResp
      ]_vars
\* A read has found under its key a stale entry that was set an hour
\* before, and is about to query the Store.
C16_Witness ==
    \E p \in Procs :
        /\ pc[p] = "repo_query" /\ req[p].op \in CachedReads
        /\ calls[p].miss = "expired" /\ Stale(p)
        /\ EntryOf(p).age = TicksPerHour

\* The keys the next Redis call of request p names.
KeysNamed(p) ==
    IF pc[p] \in {"cache_get", "cache_set"} THEN {CacheKey(req[p])}
    ELSE IF pc[p] = "cache_del" THEN InvalidatedKeys(EntityOf(req[p].op))
    ELSE {}

\* C17 (SpecSeq): Redis holds no key other than profile, experiences,
\* skills, projects, projects:featured and projects:non-featured; every
\* Redis call a request is about to issue names keys among these six, and a
\* contact request issues no Redis call.
C17_OnlySixCacheKeys ==
    /\ DOMAIN cache = {"profile", "experiences", "skills", "projects",
                       "projects:featured", "projects:non-featured"}
    /\ \A p \in Procs :
          /\ KeysNamed(p) \subseteq {"profile", "experiences", "skills", "projects",
                                     "projects:featured", "projects:non-featured"}
          /\ pc[p] # "idle" /\ EntityOf(req[p].op) = "contact"
                => calls[p].cache = 0 /\ KeysNamed(p) = {}
\* A listing of projects asked with featured=yes has been answered from the
\* Store and has set the key projects.
C17_Witness ==
    \E p \in Procs :
        /\ pc[p] = "done" /\ req[p].op = "GetProjects" /\ resp[p].status = 200
        /\ req[p].body.featured = "yes"
        /\ calls[p].cache = 2 /\ calls[p].cacheErrs = 0
        /\ cache["projects"] # NoEntry

\* The read that sets and looks up key k.
QueryOf(k) ==
    CASE k = "profile" -> [op |-> "GetProfile", body |-> NoBody]
      [] k = "experiences" -> [op |-> "GetExperiences", body |-> NoBody]
      [] k = "skills" -> [op |-> "GetSkills", body |-> NoBody]
      [] k = "projects" -> [op |-> "GetProjects", body |-> [featured |-> ""]]
      [] k = "projects:featured" -> [op |-> "GetProjects", body |-> [featured |-> "true"]]
      [] k = "projects:non-featured" ->
            [op |-> "GetProjects", body |-> [featured |-> "false"]]
\* What read r answers when table t is the table of its entity.
QueryOn(r, t) == RepoQuery(r, [e \in Entities |-> t])

\* C18 (SpecFault): the tables change only by seeding and by the one
\* mutation of a write that succeeds, which applies it whole; a repository
\* query answers from the tables as they are at that moment; every JSON
\* value put under a cache key is the answer of the key's query on the table
\* it was queried from; and every read answered 200 answers with its query
\* on such a table, whether the answer came from the Store or from the cache.
C18_ReadsAreCommittedResults ==
    [][/\ rows' # rows =>
             \/ ~booted /\ booted' /\ rows' = SeedTables
             \/ \E p \in Procs :
                   /\ pc[p] = "repo_write" /\ pc'[p] \in {"cache_del", "done"}
                   /\ calls'[p].storeErrs = calls[p].storeErrs
                   /\ pc'[p] = "done" => resp'[p].status \in {200, 201, 204}
                   /\ rows' = [rows EXCEPT ![EntityOf(req[p].op)] =
                                  TableAfter(req[p], @, got[p], nextId[EntityOf(req[p].op)])]
       /\ \A p \in Procs :
             (pc[p] = "repo_query" /\ calls'[p].storeErrs = calls[p].storeErrs
                 /\ pc'[p] # pc[p])
               => /\ got'[p] = RepoQuery(req[p], rows)
                  /\ calls'[p].snap = {rows[EntityOf(req[p].op)]}
       /\ \A k \in DOMAIN cache' :
             IF cache'[k] = NoEntry \/ cache'[k] = Held(k) THEN TRUE
             ELSE cache'[k].val.fmt = "json"
                    => \E t \in origin'[k] :
                          cache'[k].val = Marshal(QueryOn(QueryOf(k), t), Shape(QueryOf(k).op))
       /\ \A p \in Procs :
             (pc'[p] = "done" /\ pc[p] # "done" /\ req'[p].op \in ReadOps
                 /\ resp'[p].status = 200)
               => \E t \in calls'[p].snap : resp'[p].body = QueryOn(req'[p], t)
      ]_vars
\* A listing of skills has been served from the cache with what the table
\* held before the last write, whose invalidation was lost.
C18_Witness ==
    \E p \in Procs :
        /\ pc[p] = "done" /\ req[p].op = "GetSkills" /\ resp[p].status = 200
        /\ calls[p].miss = "hit"
        /\ calls[p].snap # {rows["skill"]}
        /\ resp[p].body # RepoQuery(req[p], rows)

\* C19 (SpecSeq): no request has issued more than one Store call or more
\* than one Cache call.
C19_OneStoreCallOneCacheCall ==
    \A p \in Procs : calls[p].store <= 1 /\ calls[p].cache <= 1

\* Some skill row other than row id carries the name.
NameTaken(name, id) ==
    \E i \in Ids \ {id} : rows["skill"][i] # NoRow /\ rows["skill"][i].name = name

\* C20 (SpecSeq): no two skill rows carry the same name; a CreateSkill
\* whose name a row carries, or an UpdateSkill whose name another row
\* carries, is answered 500 when it reaches the INSERT / UPDATE, and the
\* tables and the entry under skills are as before.
C20_SkillNamesUnique ==
    [][/\ \A i, j \in Ids :
             (i # j /\ rows'["skill"][i] # NoRow /\ rows'["skill"][j] # NoRow)
                => rows'["skill"][i].name # rows'["skill"][j].name
       /\ \A p \in Procs :
             ( /\ req[p].op \in {"CreateSkill", "UpdateSkill"}
               /\ pc[p] = "repo_write" /\ pc'[p] # pc[p]
               /\ NameTaken(req[p].body.name,
                            IF req[p].op = "UpdateSkill" THEN req[p].id ELSE 0) )
               => /\ pc'[p] = "done" /\ resp'[p].status = 500
                  /\ rows' = rows /\ nextId' = nextId
                  /\ cache'["skills"] = cache["skills"]
      ]_vars
\* An UpdateSkill that names a skill as another row is named has been
\* answered 500, while the skills key is populated.
C20_Witness ==
    \E p \in Procs :
        /\ pc[p] = "done" /\ req[p].op = "UpdateSkill" /\ resp[p].status = 500
        /\ calls[p].store = 2 /\ calls[p].cache = 0
        /\ NameTaken(req[p].body.name, req[p].id)
        /\ rows["skill"][req[p].id] # NoRow
        /\ rows["skill"][req[p].id].name # req[p].body.name
        /\ cache["skills"] # NoEntry

\* C21 (SpecSeq): no experience row is current and carries an end date.
C21_CurrentHasNoEndDate ==
    \A i \in Ids :
        rows["experience"][i] # NoRow
            => (rows["experience"][i].current => ~rows["experience"][i].hasEnd)

\* C22 (SpecBind): every skill row has a level from 1 to 10; a CreateSkill
\* or UpdateSkill that carries the credential and a level outside 1..10
\* (0 being an omitted level) is answered 400 on arrival, with no Store or
\* Cache call and the tables as they were.
C22_SkillLevelInRange ==
    [][/\ \A i \in Ids :
             rows'["skill"][i] # NoRow => rows'["skill"][i].level \in 1..10
       /\ \A p \in Procs :
             ( /\ Arrives(p) /\ req'[p].op \in {"CreateSkill", "UpdateSkill"}
               /\ req'[p].body # NoBody
               /\ req'[p].body.level \notin 1..10 )
               => /\ pc'[p] = "done" /\ resp'[p].status = 400
                  /\ calls'[p] = NoCalls
                  /\ rows' = rows /\ nextId' = nextId /\ cache' = cache
      ]_vars
\* An UpdateSkill of the seeded row that carries a name, a category and no
\* level has been answered 400, and the row has its level of 9.
C22_Witness ==
    \E p \in Procs :
        /\ pc[p] = "done" /\ req[p].op = "UpdateSkill" /\ resp[p].status = 400
        /\ req[p].body # NoBody /\ req[p].body.name # ""
        /\ req[p].body.level = 0
        /\ rows["skill"][req[p].id] # NoRow
        /\ rows["skill"][req[p].id].level = 9

\* C23 (SpecBind): a Login is answered 200 only when its username and
\* password are those of a row of the users table, and any other pair that
\* passes binding is answered 401.
C23_LoginNeedsStoredUser ==
    \A p \in Procs :
        (pc[p] = "done" /\ req[p].op = "Login" /\ resp[p].status # 400)
            => IF \E u \in Users : /\ u.username = req[p].body.username
                                    /\ u.password = req[p].body.password
               THEN resp[p].status = 200
               ELSE resp[p].status = 401

\* Signing secrets a server may be configured with.
Secrets == {JWTSecret, "s3cret", ""}

\* C24 (SpecAuth): an /admin request is answered 401 on arrival exactly
\* when its header carries no bearer token that begins with the marker,
\* whatever tokens Login has handed out and however much time has passed;
\* and isValidToken answers the same under every signing secret.
C24_MarkerPrefixDecides ==
    [][\A p \in Procs :
          (Arrives(p) /\ IsAdmin(req'[p].op))
            => /\ (pc'[p] = "done" /\ resp'[p].status = 401)
                     <=> ~( /\ Len(req'[p].auth) >= 2
                            /\ req'[p].auth[1] = "Bearer "
                            /\ req'[p].auth[2] = "demo-jwt-token-" )
               /\ \A s \in Secrets :
                     isValidToken(TrimPrefix(req'[p].auth, <<"Bearer ">>), s)
                        <=> isValidToken(TrimPrefix(req'[p].auth, <<"Bearer ">>), JWTSecret)
      ]_vars
\* The contacts have been listed for a token that Login never handed out,
\* after Login handed out another one.
C24_Witness ==
    \E p \in Procs :
        /\ pc[p] = "done" /\ req[p].op = "GetContacts" /\ resp[p].status = 200
        /\ TrimPrefix(req[p].auth, <<"Bearer ">>) \notin issued
        /\ issued # {}

\* C25 (SpecBind): a request whose path id is not a number, or whose body
\* lacks a required field or carries a malformed one (an email that is no
\* address, a skill level outside 1..10), is answered 400 on arrival, before
\* any service method runs: it makes no Store call and no Cache call, and
\* the Store and the Cache stay as they were; and a request answered 400 has
\* made no call at all.
C25_RefusedBeforeAnyService ==
    [][ \A p \in Procs :
          /\ ( /\ Arrives(p)
               /\ LET r == req'[p] IN
                   \/ r.op \in ByIdOps /\ r.path \in {"abc", "-1"}
                   \/ r.op = "CreateExperience" /\ r.body.company = ""
                   \/ r.op = "CreateSkill"
                        /\ (r.body.name = "" \/ r.body.category = ""
                              \/ r.body.level \notin 1..10)
                   \/ r.op = "UpdateSkill" /\ r.body # NoBody
                        /\ r.body.level \notin 1..10
                   \/ r.op = "CreateContact"
                        /\ (r.body.name = "" \/ r.body.message = ""
                              \/ r.body.email \in {"", "not-an-email"})
                   \/ r.op = "UpdateContactStatus" /\ r.body # NoBody
                        /\ r.body.status = ""
                   \/ r.op = "Login"
                        /\ (r.body.username = "" \/ r.body.password = "") )
             => /\ pc'[p] = "done" /\ resp'[p].status = 400
                /\ calls'[p] = NoCalls
                /\ UNCHANGED <<rows, nextId, cache>>
          /\ pc'[p] = "done" /\ resp'[p].status = 400 => calls'[p] = NoCalls
      ]_vars
\* A contact form whose email is no address has been refused, and the
\* Store holds no contact.
C25_Witness ==
    /\ \E p \in Procs :
          /\ pc[p] = "done" /\ req[p].op = "CreateContact"
          /\ req[p].body.name # "" /\ req[p].body.email = "not-an-email"
          /\ resp[p].status = 400
    /\ \A i \in Ids : rows["contact"][i] = NoRow

\* C26 (SpecFault): when the Store call a request ends on reports an error,
\* the answer is 404 if the error is the not-found of an update or delete,
\* and otherwise 500 with one of the fixed messages, which is not the text
\* of the error (a uniqueness violation on create included); a request that
\* ends without a Store error is answered 201 for a create, 204 for a
\* delete and 200 for a read or an update.
C26_StatusFollowsStoreOutcome ==
    [][ \A p \in Procs :
          pc[p] \notin {"idle", "done"} /\ pc'[p] = "done"
          => LET op == req[p].op
                 err == calls'[p].err
                 status == resp'[p].status
             IN IF calls'[p].storeErrs > calls[p].storeErrs
                THEN IF op \in UpdateOps \cup DeleteOps \cup {"UpdateContactStatus"}
                        /\ err \in {"experience not found", "skill not found",
                                    "project not found", "contact not found"}
                     THEN status = 404
                     ELSE /\ status = 500
                          /\ resp'[p].body \in {"Failed", "Failed to get"}
                          /\ resp'[p].body # err
                ELSE status = IF op \in CreateOps THEN 201
                              ELSE IF op \in DeleteOps THEN 204
                              ELSE 200
      ]_vars
\* A CreateSkill has been answered 500 after the INSERT reported the
\* violation of the unique index on the name.
C26_Witness ==
    \E p \in Procs :
        /\ pc[p] = "done" /\ req[p].op = "CreateSkill" /\ resp[p].status = 500
        /\ calls[p].err = "duplicate key value violates unique constraint"

\* C27 (SpecBind): a get by id of a row that a create has stored is answered
\* 200 with the row as the Store holds it, that is, the input of the create
\* under the id the create returned.
C27_CreateThenGetById ==
    [][ \A p \in Procs :
          Arrives(p) /\ req'[p].op \in {"GetExperience", "GetSkill", "GetContact"}
          => LET e == CASE req'[p].op = "GetExperience" -> "experience"
                        [] req'[p].op = "GetSkill" -> "skill"
                        [] OTHER -> "contact"
                 named == {i \in Ids : /\ NumeralOf(i) = req'[p].path
                                        /\ i >= SeedNextId(e)
                                        /\ rows[e][i] # NoRow}
             IN \A i \in named :
                   /\ pc'[p] = "done" /\ resp'[p].status = 200
                   /\ resp'[p].body = rows[e][i]
      ]_vars

\* C28 (SpecBoot): initialization seeds only a Store without a profile: when
\* the server is started again on a Store that holds a profile, no table
\* gains, loses or changes a row and no key counter moves; and a step that
\* changes a table without a request writing is the seeding of a Store
\* that held no profile.
C28_SeedingIsIdempotent ==
    [][ /\ boots' # boots /\ Present("profile") # {}
           => rows' = rows /\ nextId' = nextId
        /\ (rows' # rows /\ \A p \in Procs : pc[p] # "repo_write")
           => Present("profile") = {} /\ rows' = SeedTables
      ]_vars
\* The server has just been started again (the limiter's bucket is full,
\* which it is after no request) on a Store from which the seeded
\* experience had been deleted and that holds an experience created since.
C28_Witness ==
    /\ boots >= 1
    /\ tokens = Burst
    /\ \A p \in Procs : pc[p] = "idle"
    /\ rows["experience"][1] = NoRow
    /\ Present("experience") # {}
    /\ Present("profile") # {}

\* C29 (SpecLive): in every interleaving of concurrent requests, a request
\* that is being served gets its response, whatever the other requests do:
\* none of its steps waits for another request.
C29_EveryRequestCompletes ==
    \A p \in Procs : (InFlight(p) ~> pc[p] = "done")
\* Two updates of the same experience stand between their First and their
\* Save at the same time.
C29_Witness ==
    \E p \in Procs, q \in Procs :
        /\ p # q
        /\ pc[p] = "repo_write" /\ pc[q] = "repo_write"
        /\ req[p].op = "UpdateExperience" /\ req[q].op = "UpdateExperience"
        /\ req[p].id = req[q].id

\* C30 (SpecSeq): deletes are soft: when the Delete of a DeleteExperience,
\* DeleteSkill or DeleteProject has succeeded, the table still holds the row
\* under its key.
C30_DeleteRetainsRow ==
    [][ \A p \in Procs :
          ( /\ pc[p] = "repo_write" /\ req[p].op \in DeleteOps
            /\ pc'[p] = "cache_del" )
          => rows'[EntityOf(req[p].op)][req[p].id] # NoRow
      ]_vars

\* C31 (SpecConc): once a DeleteExperience, DeleteSkill or DeleteProject of
\* an id has been answered 204 and the row is gone, no step of any request
\* brings a row with that id into the table again.
C31_DeletedStaysDeleted ==
    [][ \A q \in Procs :
          ( /\ pc[q] = "done" /\ req[q].op \in DeleteOps
            /\ resp[q].status = 204
            /\ rows[EntityOf(req[q].op)][req[q].id] = NoRow )
          => rows'[EntityOf(req[q].op)][req[q].id] = NoRow
      ]_vars

\* C32 (SpecFrame): a step changes a cache key only as the redis.Set of a
\* read, which sets the key that read looks up and no other, or as the
\* redis.Del of a write, which deletes keys of the written entity only;
\* and no step of a contact request or of a login makes a Cache call or
\* changes a key.
C32_CacheEffectsStayWithEntity ==
    [][ /\ \A k \in Keys :
             cache'[k] # cache[k]
             => \E p \in Procs :
                   \/ /\ pc[p] = "cache_set" /\ cache'[k] # NoEntry
                      /\ \/ req[p].op = "GetProfile" /\ k = "profile"
                         \/ req[p].op = "GetExperiences" /\ k = "experiences"
                         \/ req[p].op = "GetSkills" /\ k = "skills"
                         \/ /\ req[p].op = "GetProjects"
                            /\ k = IF req[p].body.featured = "true"
                                   THEN "projects:featured"
                                   ELSE IF req[p].body.featured = "false"
                                   THEN "projects:non-featured"
                                   ELSE "projects"
                   \/ /\ pc[p] = "cache_del" /\ cache'[k] = NoEntry
                      /\ \/ req[p].op = "UpdateProfile" /\ k = "profile"
                         \/ /\ req[p].op \in {"CreateExperience", "UpdateExperience",
                                              "DeleteExperience"}
                            /\ k = "experiences"
                         \/ /\ req[p].op \in {"CreateSkill", "UpdateSkill",
                                              "DeleteSkill"}
                            /\ k = "skills"
                         \/ /\ req[p].op \in {"CreateProject", "UpdateProject",
                                              "DeleteProject"}
                            /\ k \in {"projects", "projects:featured",
                                      "projects:non-featured"}
        /\ \A p \in Procs :
             ( /\ pc'[p] # "idle"
               /\ req'[p].op \in {"CreateContact", "GetContacts",
                                   "UpdateContactStatus", "Login"} )
             => /\ calls'[p].cache = 0
                /\ pc'[p] # pc[p] => cache' = cache
      ]_vars
\* A skill has been deleted and the skills key, which was populated, is
\* empty, while the featured projects are still cached.
C32_Witness ==
    \E p \in Procs :
        /\ pc[p] = "done" /\ req[p].op = "DeleteSkill" /\ resp[p].status = 204
        /\ preWrite["skills"] /\ cache["skills"] = NoEntry
        /\ cache["projects:featured"] # NoEntry

\* C33 (SpecSeq): with requests served one at a time and every redis.Del
\* succeeding, whenever the keys projects, projects:featured and
\* projects:non-featured all hold a listing, no row is in both the featured
\* and the non-featured listing, and the rows of the two together are
\* exactly the rows of the unfiltered listing.
C33_ProjectViewsAgree ==
    LET Listed(k) == {Unmarshal(cache[k].val)[i] :
                         i \in 1..Len(Unmarshal(cache[k].val))}
    IN  (\A k \in {"projects", "projects:featured", "projects:non-featured"} :
            Live(cache[k]) /\ UnmarshalOk(cache[k].val, "array"))
        => /\ Listed("projects:featured") \cap Listed("projects:non-featured") = {}
           /\ Listed("projects:featured") \cup Listed("projects:non-featured")
                 = Listed("projects")
\* The three keys hold listings, and both the featured and the non-featured
\* listing have a row.
C33_Witness ==
    /\ \A k \in {"projects", "projects:featured", "projects:non-featured"} :
          Live(cache[k]) /\ UnmarshalOk(cache[k].val, "array")
    /\ Len(Unmarshal(cache["projects:featured"].val)) > 0
    /\ Len(Unmarshal(cache["projects:non-featured"].val)) > 0
    /\ Len(Unmarshal(cache["projects"].val)) > 1

\* C34 (SpecAuth): every token a successful Login has returned passes
\* AuthMiddleware when presented as "Bearer <token>": an admin request that
\* carries it is not answered 401 but is handed to its handler.
C34_IssuedTokenIsAccepted ==
    [][ /\ \A t \in issued' : AuthMiddleware(<<"Bearer ">> \o t) = ""
        /\ \A p \in Procs :
             ( /\ Arrives(p)
               /\ req'[p].op \in {"UpdateProfile", "GetContacts",
                                   "UpdateContactStatus"}
               /\ \E t \in issued : req'[p].auth = <<"Bearer ">> \o t )
             => /\ ~(pc'[p] = "done" /\ resp'[p].status = 401)
                /\ pc'[p] \in {"repo_write", "repo_query", "repo_first", "done"}
      ]_vars
\* The contacts have been listed for the token that a login of mallory
\* returned.
C34_Witness ==
    \E p \in Procs :
        /\ pc[p] = "done" /\ req[p].op = "GetContacts" /\ resp[p].status = 200
        /\ req[p].auth = <<"Bearer ", "demo-jwt-token-", "mallory">>
        /\ <<"demo-jwt-token-", "mallory">> \in issued

C36_FeaturedTextSelectsListing ==
    [][\A p \in Procs :
          (req'[p].op = "GetProjects" /\ pc[p] # "idle" /\ pc'[p] # pc[p]) =>
             LET f == req[p].body.featured
                 key == IF f = "true" THEN "projects:featured"
                        ELSE IF f = "false" THEN "projects:non-featured"
                        ELSE "projects"
                 want == SortRows("project",
                            {rows["project"][i] :
                               i \in {j \in Ids :
                                        /\ rows["project"][j] # NoRow
                                        /\ f = "true" => rows["project"][j].featured
                                        /\ f = "false" => ~rows["project"][j].featured}})
             IN /\ \A k \in DOMAIN cache \ {key} : cache'[k] = cache[k]
                /\ pc[p] = "repo_query" => got'[p] = want
                /\ pc[p] = "cache_set" => cache'[key] # NoEntry
                /\ pc'[p] = "done"
                      => /\ resp'[p].status = 200
                         /\ cache'[key] # NoEntry
                         /\ cache'[key].val.data = resp'[p].body
      ]_vars
\* A listing asked with featured=false has been answered from the Store with
\* some but not all of the project rows, key projects:non-featured is set
\* and key projects is not.
C36_Witness ==
    \E p \in Procs :
        /\ pc[p] = "done" /\ req[p].op = "GetProjects" /\ resp[p].status = 200
        /\ req[p].body.featured = "false"
        /\ calls[p].store = 1
        /\ cache["projects:non-featured"] # NoEntry
        /\ cache["projects"] = NoEntry
        /\ resp[p].body # <<>>
        /\ \E i \in Ids : rows["project"][i] # NoRow /\ rows["project"][i].featured

====
